---- MODULE Spec2Model ----
(***************************************************************************)
(* Typed REST resource clients of the Akamai SDK (gtm, edgeworkers,        *)
(* cloudlets, papi): request validation, request construction, execution  *)
(* through the session, status classification and error mapping.          *)
(*                                                                         *)
(* An error value is modelled as its chain: a non-empty sequence of links, *)
(* outermost first; <<>> is the nil error.  A link is                      *)
(*   [kind, name, text, e]                                                 *)
(* kind "sentinel": a package-level errors.New value, identified by name;  *)
(* kind "api":      a *Error, e holds its fields and its address;          *)
(* kind "fmt":      a fmt.Errorf value; when the format has a %w verb the   *)
(*                  chain continues with the wrapped error;                *)
(* kind "plain":    any other error without Unwrap (validation errors,     *)
(*                  transport causes are sentinels of their packages).     *)
(***************************************************************************)
EXTENDS Integers, Sequences, FiniteSets, TLC

VARIABLES
    op,         \* resource operation: the operation invoked last ("none" at first)
    params,     \* resource operation: its request parameters
    ctx,        \* resource operation: the caller's context: "live", "canceled", "expired", "nil"
    reply,      \* resource operation: what Session.Exec answered, if it was called
    execLog,    \* resource operation: the requests handed to Session.Exec by the call
    result,     \* resource operation: the returned result
    err,        \* resource operation: the returned error (a chain)
    panicked,   \* resource operation: the call ended in a runtime panic
    pc,         \* "init" before the call under study, "done" after it
    e,          \* Error.Is: the receiver *Error
    target,     \* Error.Is: the target error (a chain)
    isResult,   \* Error.Is: the returned bool
    r,          \* gtm.Error: the *http.Response [StatusCode, Body]
    mapped,     \* gtm.Error: the returned error (a chain)
    sess,       \* Client: the session argument
    opts,       \* Client: the option arguments, in order
    client,     \* Client: the client struct [Session, usePrefixes]
    applied,    \* Client: the options applied so far, in order of application
    calls,      \* per caller: the operation it runs on the client and its outcome
    vreq,       \* Validate: the EdgeHostnameCreate it is called on
    verr        \* Validate: the failed fields it returns (<<>> is the nil error)

opVars == <<op, params, ctx, reply, execLog, result, err, panicked>>
clientVars == <<sess, opts, client, applied, calls>>
vars ==
    <<op, params, ctx, reply, execLog, result, err, panicked, pc, e, target, isResult, r, mapped,
      sess, opts, client, applied, calls, vreq, verr>>
validateVars == <<vreq, verr>>

----------------------------------------------------------------------------
(* HTTP status codes used by the sources. *)
StatusOK == 200
StatusCreated == 201
StatusNoContent == 204
StatusBadRequest == 400
StatusUnauthorized == 401
StatusNotFound == 404
StatusInternalServerError == 500

(* Number of distinct *Error allocations a comparison may involve. *)
NumAddrs == 2

(* Number of callers sharing one client. *)
NumCallers == 2

(* Longest option list handed to Client. *)
MaxOpts == 2

----------------------------------------------------------------------------
(* The Error struct of gtm/errors.go; addr is the pointer identity. *)
ZeroError ==
    [Type |-> "", Title |-> "", Detail |-> "", Instance |-> "",
     BehaviorName |-> "", ErrorLocation |-> "", StatusCode |-> 0, addr |-> 0]

Sentinel(n, msg) == [kind |-> "sentinel", name |-> n, text |-> <<msg>>, e |-> ZeroError]

ErrBadRequest == <<Sentinel("ErrBadRequest", "missing argument")>>
ErrNotFound == <<Sentinel("ErrNotFound", "404 Not Found")>>

(* json.MarshalIndent(e): the tagged fields in declaration order; the      *)
(* omitempty fields are left out when empty; StatusCode is tagged "-".     *)
OmitEmpty(key, val) == IF val = "" THEN <<>> ELSE << <<key, val>> >>

MarshalIndent(x) ==
    << <<"type", x.Type>>, <<"title", x.Title>>, <<"detail", x.Detail>> >>
    \o OmitEmpty("instance", x.Instance)
    \o OmitEmpty("behaviorName", x.BehaviorName)
    \o OmitEmpty("errorLocation", x.ErrorLocation)

(* (e *Error) Error() *)
ErrorString(x) == << <<"API error: ", "\n">> >> \o MarshalIndent(x)

RECURSIVE FlattenPairs(_)
FlattenPairs(ps) == IF ps = <<>> THEN <<>> ELSE ps[1] \o FlattenPairs(Tail(ps))

ApiLink(x) == [kind |-> "api", name |-> "", text |-> FlattenPairs(ErrorString(x)), e |-> x]

(* fmt.Errorf without %w: a leaf; with %w: a link in front of the wrapped chain. *)
Errorf(txt) == <<[kind |-> "fmt", name |-> "", text |-> txt, e |-> ZeroError]>>
ErrorfW(txt, wrapped) == Errorf(txt) \o wrapped

(* err == target on interface values: same sentinel variable or same *Error pointer. *)
SameValue(a, b) ==
    /\ a # <<>> /\ b # <<>>
    /\ a[1].kind = b[1].kind
    /\ \/ a[1].kind = "sentinel" /\ a[1].name = b[1].name
       \/ a[1].kind = "api" /\ a[1].e.addr = b[1].e.addr

Tail2(s, i) == SubSeq(s, i, Len(s))

(* errors.As that never finds an *Error in the chain. *)
AsIndexNeverFinding(tg) == 0

(* errors.As(target, &t) with t *Error: the first *Error of the chain, if any. *)
AsIndex(tg) == IF \E i \in 1..Len(tg) : tg[i].kind = "api"
               THEN CHOOSE i \in 1..Len(tg) : tg[i].kind = "api" /\ \A j \in 1..(i-1) : tg[j].kind # "api"
               ELSE 0

RECURSIVE ErrorsIs(_, _)
RECURSIVE Is(_, _)

(* errors.Is(er, tg): walks er's chain; a link matches when it is the     *)
(* target value or when it has an Is method that accepts the target.       *)
ErrorsIs(er, tg) ==
    IF er = <<>> \/ tg = <<>> THEN er = tg
    ELSE \E i \in 1..Len(er) :
            \/ SameValue(Tail2(er, i), tg)
            \/ er[i].kind = "api" /\ Is(er[i].e, tg)

(* Is without the status test of the not-found branch. *)
IsNotFoundAnyStatus(x, tg) ==
    IF ErrorsIs(tg, ErrNotFound) THEN TRUE
    ELSE IF AsIndex(tg) = 0 THEN FALSE
    ELSE LET t == tg[AsIndex(tg)].e IN
         IF x.addr = t.addr THEN TRUE
         ELSE IF x.StatusCode # t.StatusCode THEN FALSE
         ELSE ErrorString(x) = ErrorString(t)

(* Is that compares pointers and status codes but never the rendered messages. *)
IsNoRenderingCompare(x, tg) ==
    IF ErrorsIs(tg, ErrNotFound) /\ x.StatusCode = StatusNotFound THEN TRUE
    ELSE IF AsIndex(tg) = 0 THEN FALSE
    ELSE LET t == tg[AsIndex(tg)].e IN
         IF x.addr = t.addr THEN TRUE
         ELSE FALSE

(* (e *Error) Is(target error) bool *)
Is(x, tg) ==
    IF ErrorsIs(tg, ErrNotFound) /\ x.StatusCode = StatusNotFound THEN TRUE
    ELSE IF AsIndex(tg) = 0 THEN FALSE
    ELSE LET t == tg[AsIndex(tg)].e IN
         IF x.addr = t.addr THEN TRUE
         ELSE IF x.StatusCode # t.StatusCode THEN FALSE
         ELSE ErrorString(x) = ErrorString(t)

----------------------------------------------------------------------------
(* Inputs of the comparison. *)
IsStatusCodes == {StatusUnauthorized, StatusNotFound, StatusInternalServerError}
Titles == {"some error", "other error"}
Opt == {"", "x"}

ErrorValues(addrs) ==
    [Type : Opt, Title : Titles, Detail : Opt, Instance : Opt,
     BehaviorName : Opt, ErrorLocation : Opt, StatusCode : IsStatusCodes, addr : addrs]

Targets(x) ==
    {<<ApiLink(x)>>, ErrNotFound, ErrBadRequest,
     ErrorfW(<<"wrapped: ", "404 Not Found">>, ErrNotFound),
     Errorf(<<"plain">>)}
    \cup {<<ApiLink(t)>> : t \in ErrorValues(2..NumAddrs)}
    \cup {ErrorfW(<<"wrapped: ", "API error">>, <<ApiLink(t)>>) : t \in ErrorValues({NumAddrs})}

(* A response body [kind, raw, obj, data]: obj holds the problem-details   *)
(* members of a JSON body, data the members a success response is decoded  *)
(* from: the list member ("items", "deactivations"), the "status" member   *)
(* and the "edgeHostnameLink" member.                                      *)
ZeroObject == [type |-> "", title |-> "", detail |-> "", instance |-> "", status |-> 0]
NoLink == [valid |-> TRUE, path |-> <<>>]
ZeroData == [items |-> FALSE, status |-> FALSE, link |-> NoLink]

IdleResponse ==
    [StatusCode |-> 0, Body |-> [kind |-> "none", raw |-> "", obj |-> ZeroObject, data |-> ZeroData]]

NilResult == [isNil |-> TRUE, data |-> ZeroData, id |-> ""]
NoReply == [kind |-> "none", cause |-> "", StatusCode |-> 0, Body |-> IdleResponse.Body]

IdleOps ==
    /\ op = "none" /\ params = [none |-> TRUE] /\ ctx = "live" /\ reply = NoReply
    /\ execLog = <<>> /\ result = NilResult /\ err = <<>> /\ panicked = FALSE

(* The client struct and its callers. *)
NilSession == "nil"
DefaultSession == "sess"
Callers == 1..NumCallers
IdleCall ==
    [pc |-> "idle", op |-> "none", params |-> [none |-> TRUE], reply |-> NoReply,
     out |-> [result |-> NilResult, err |-> <<>>, execs |-> <<>>, panicked |-> FALSE]]

IdleClient ==
    /\ sess = DefaultSession /\ opts = <<>> /\ applied = <<>>
    /\ client = [Session |-> DefaultSession, usePrefixes |-> FALSE]
    /\ calls = [g \in Callers |-> IdleCall]
    /\ vreq = [none |-> TRUE] /\ verr = <<>>

InitIs ==
    /\ pc = "init"
    /\ e \in ErrorValues({1})
    /\ target \in Targets(e)
    /\ isResult = FALSE
    /\ r = IdleResponse
    /\ mapped = <<>>
    /\ IdleOps
    /\ IdleClient

CallIs ==
    /\ pc = "init"
    /\ pc' = "done"
    /\ isResult' = Is(e, target)
    /\ UNCHANGED <<e, target, r, mapped, opVars, clientVars, validateVars>>

NextIs == CallIs

SpecErrorIs == InitIs /\ [][NextIs]_vars

(* C6: two typed Errors that differ in status code or in title never match. *)
TypedTarget == Len(target) = 1 /\ target[1].kind = "api"

C6_DifferingStatusOrTitleUnequal ==
    (pc = "done" /\ TypedTarget
        /\ (e.StatusCode # target[1].e.StatusCode \/ e.Title # target[1].e.Title))
    => isResult = FALSE

SameRendering(a, b) ==
    /\ a.Type = b.Type /\ a.Title = b.Title /\ a.Detail = b.Detail
    /\ a.Instance = b.Instance /\ a.BehaviorName = b.BehaviorName
    /\ a.ErrorLocation = b.ErrorLocation

(* C7 as stated: two typed Errors with the same status code and the same   *)
(* title match, whatever their other fields are.                           *)
C7_SameStatusAndTitleEqual ==
    (pc = "done" /\ TypedTarget
        /\ e.StatusCode = target[1].e.StatusCode /\ e.Title = target[1].e.Title)
    => isResult = TRUE

(* C7 amended: two typed Errors with the same status code, the same title  *)
(* and the same Type, Detail, Instance, BehaviorName and ErrorLocation     *)
(* match; with a status code other than 404, two distinct Errors that      *)
(* differ in one of these fields do not.                                   *)
C7_SameStatusAndRenderingEqual ==
    /\ (pc = "done" /\ TypedTarget
            /\ e.StatusCode = target[1].e.StatusCode /\ SameRendering(e, target[1].e))
       => isResult = TRUE
    /\ (pc = "done" /\ TypedTarget /\ e.addr # target[1].e.addr
            /\ e.StatusCode = target[1].e.StatusCode /\ e.StatusCode # StatusNotFound
            /\ ~SameRendering(e, target[1].e))
       => isResult = FALSE

C7_Witness ==
    /\ pc = "done" /\ TypedTarget /\ target[1].e.addr # e.addr
    /\ e.StatusCode = StatusInternalServerError
    /\ e.StatusCode = target[1].e.StatusCode /\ SameRendering(e, target[1].e)
    /\ e.Detail = "x" /\ e.Instance = "x"
    /\ isResult = TRUE

(* C8: a typed Error matches ErrNotFound, directly and under errors.Is,    *)
(* exactly when its status code is 404.                                    *)
C8_NotFoundIffStatus404 ==
    (pc = "done" /\ target = ErrNotFound)
    => /\ isResult = (e.StatusCode = StatusNotFound)
       /\ ErrorsIs(<<ApiLink(e)>>, target) = (e.StatusCode = StatusNotFound)

C8_Witness ==
    /\ pc = "done" /\ target = ErrNotFound
    /\ e.StatusCode = StatusNotFound /\ e.Title = "some error" /\ e.Detail = "x"
    /\ isResult = TRUE

----------------------------------------------------------------------------
(* The error mapper of gtm/errors.go.                                      *)
(* A response body is [kind, raw, obj]:                                    *)
(*   "unreadable": ioutil.ReadAll fails;                                   *)
(*   "text":       raw is not JSON (also the empty body);                  *)
(*   "mistyped":   a JSON object whose "title" is not a string: Unmarshal  *)
(*                 fills the other fields and reports a type error;        *)
(*   "json":       a JSON object with the members of obj.                  *)
ReadErrorText == "unexpected EOF"
SyntaxErrorText == "invalid character"
TypeErrorText == "cannot unmarshal number into Go struct field Error.title of type string"

(* ioutil.ReadAll(r.Body) *)
ReadAll(body) ==
    IF body.kind = "unreadable" THEN [err |-> ReadErrorText, body |-> body]
    ELSE [err |-> "", body |-> body]

(* Unmarshal leaving the "detail" member undecoded. *)
UnmarshalDroppingDetail(body) ==
    CASE body.kind = "json" ->
            [err |-> "",
             val |-> [ZeroError EXCEPT !.Type = body.obj.type, !.Title = body.obj.title,
                                       !.Instance = body.obj.instance]]
      [] body.kind = "mistyped" ->
            [err |-> TypeErrorText,
             val |-> [ZeroError EXCEPT !.Type = body.obj.type, !.Instance = body.obj.instance]]
      [] OTHER -> [err |-> SyntaxErrorText, val |-> ZeroError]

(* json.Unmarshal(body, &e) on a zero Error: the "status" member is not     *)
(* decoded, StatusCode being tagged "-".                                   *)
Unmarshal(body) ==
    CASE body.kind = "json" ->
            [err |-> "",
             val |-> [ZeroError EXCEPT !.Type = body.obj.type, !.Title = body.obj.title,
                                       !.Detail = body.obj.detail,
                                       !.Instance = body.obj.instance]]
      [] body.kind = "mistyped" ->
            [err |-> TypeErrorText,
             val |-> [ZeroError EXCEPT !.Type = body.obj.type, !.Detail = body.obj.detail,
                                       !.Instance = body.obj.instance]]
      [] OTHER -> [err |-> SyntaxErrorText, val |-> ZeroError]

(* The mapper with the status assignment of the read-failure branch left out. *)
gtmErrorNoStatusOnReadFailure(resp) ==
    LET read == ReadAll(resp.Body) IN
    IF read.err # ""
    THEN <<ApiLink([ZeroError EXCEPT !.Title = "Failed to read error body",
                                     !.Detail = read.err, !.addr = 1])>>
    ELSE LET dec == Unmarshal(read.body)
             filled == IF dec.err # ""
                       THEN [dec.val EXCEPT !.Title = "Failed to unmarshal error body",
                                            !.Detail = dec.err]
                       ELSE dec.val
         IN <<ApiLink([filled EXCEPT !.StatusCode = resp.StatusCode, !.addr = 1])>>

(* func (p *gtm) Error(r *http.Response) error *)
gtmError(resp) ==
    LET read == ReadAll(resp.Body) IN
    IF read.err # ""
    THEN <<ApiLink([ZeroError EXCEPT !.StatusCode = resp.StatusCode,
                                     !.Title = "Failed to read error body",
                                     !.Detail = read.err, !.addr = 1])>>
    ELSE LET dec == Unmarshal(read.body)
             filled == IF dec.err # ""
                       THEN [dec.val EXCEPT !.Title = "Failed to unmarshal error body",
                                            !.Detail = dec.err]
                       ELSE dec.val
         IN <<ApiLink([filled EXCEPT !.StatusCode = resp.StatusCode, !.addr = 1])>>

(* Inputs of the mapper. *)
MapperStatusCodes ==
    {StatusBadRequest, StatusUnauthorized, StatusNotFound, StatusInternalServerError}

Objects ==
    [type : {"", "internal_error"},
     title : {"", "Internal Server Error", "Bad Request"},
     detail : {"", "Error fetching geomap"},
     instance : Opt,
     status : {0, StatusBadRequest, StatusInternalServerError}]

Bodies ==
    {[kind |-> "unreadable", raw |-> "", obj |-> ZeroObject, data |-> ZeroData]}
    \cup {[kind |-> "text", raw |-> t, obj |-> ZeroObject, data |-> ZeroData] :
                t \in {"", "test", "<html>"}}
    \cup {[kind |-> k, raw |-> "{}", obj |-> o, data |-> ZeroData] :
                k \in {"json", "mistyped"}, o \in Objects}

Responses == [StatusCode : MapperStatusCodes, Body : Bodies]

InitMapper ==
    /\ pc = "init"
    /\ e = ZeroError
    /\ target = <<>>
    /\ isResult = FALSE
    /\ r \in Responses
    /\ mapped = <<>>
    /\ IdleOps
    /\ IdleClient

CallError ==
    /\ pc = "init"
    /\ pc' = "done"
    /\ mapped' = gtmError(r)
    /\ UNCHANGED <<e, target, isResult, r, opVars, clientVars, validateVars>>

NextMapper == CallError

SpecErrorMapper == InitMapper /\ [][NextMapper]_vars

IsTyped(er) == Len(er) = 1 /\ er[1].kind = "api"

(* C9: the mapper always returns a typed Error whose status code is the    *)
(* response's status code: JSON body, non-JSON body, unreadable body.      *)
C9_MapperKeepsStatusCode ==
    pc = "done" => IsTyped(mapped) /\ mapped[1].e.StatusCode = r.StatusCode

C9_Witness ==
    /\ pc = "done" /\ r.Body.kind = "unreadable"
    /\ r.StatusCode = StatusInternalServerError
    /\ IsTyped(mapped) /\ mapped[1].e.StatusCode = StatusInternalServerError

(* C10: for a body that is not decodable JSON the mapper returns an Error  *)
(* whose Title is the raw body text.                                       *)
C10_TitleIsRawBody ==
    (pc = "done" /\ r.Body.kind = "text")
    => IsTyped(mapped) /\ mapped[1].e.Title = r.Body.raw

----------------------------------------------------------------------------
(* Resource operations.                                                    *)

(* Largest identifier a request may carry (identifiers range over 0..MaxID). *)
MaxID == 1

IDs == 0..MaxID

(* A string with a control character: url.Parse and http.NewRequest reject it. *)
ControlString == "bad\n"
HasControlChar(str) == str = ControlString

(* fmt's %d *)
Digits == <<"0", "1", "2", "3", "4", "5", "6", "7", "8", "9">>
RECURSIVE Itoa(_)
Itoa(n) == IF n < 10 THEN Digits[n + 1] ELSE Itoa(n \div 10) \o Digits[(n % 10) + 1]

(* Error() of an error value: the text of its outermost link. *)
Text(er) == IF er = <<>> THEN <<>> ELSE er[1].text

(* ozzo-validation: a rule yields "" (passes) or a message; Validate yields *)
(* the first failing rule; Errors{...}.Filter() keeps the failed fields,    *)
(* rendered in key order; no failed field is the nil error.                 *)
Required(val, zero) == IF val = zero THEN "cannot be blank" ELSE ""
In(val, zero, allowed) == IF val # zero /\ val \notin allowed THEN "must be a valid value" ELSE ""
WhenIgnoringCondition(cond, msg) == msg
When(cond, msg) == IF cond THEN msg ELSE ""
FirstOf(msgs) ==
    IF \E i \in 1..Len(msgs) : msgs[i] # ""
    THEN msgs[CHOOSE i \in 1..Len(msgs) : msgs[i] # "" /\ \A j \in 1..(i-1) : msgs[j] = ""]
    ELSE ""
Field(name, msg) == [field |-> name, msg |-> msg, sub |-> <<>>]
Nested(name, v) == [field |-> name, msg |-> IF v = <<>> THEN "" ELSE "invalid", sub |-> v]
Filter(fields) == SelectSeq(fields, LAMBDA f : f.msg # "")

RECURSIVE FieldsText(_)
FieldsText(v) ==
    IF v = <<>> THEN <<>>
    ELSE <<v[1].field, ": ">>
         \o (IF v[1].sub = <<>> THEN <<v[1].msg>> ELSE <<"(">> \o FieldsText(v[1].sub) \o <<")">>)
         \o (IF Len(v) = 1 THEN <<".">> ELSE <<"; ">>)
         \o FieldsText(Tail(v))

(* The error value of a failed validation (validation.Errors). *)
ValidationError(v) ==
    IF v = <<>> THEN <<>>
    ELSE <<[kind |-> "plain", name |-> "validation.Errors", text |-> FieldsText(v), e |-> ZeroError]>>

(* url.Parse / http.NewRequestWithContext: the raw URL is the sequence of   *)
(* the pieces Sprintf joins.                                               *)
ParseOK(raw) == \A i \in 1..Len(raw) : ~HasControlChar(raw[i])

NilRequest == [isNil |-> TRUE, Method |-> "", URL |-> <<>>, Query |-> <<>>, hasBody |-> FALSE]

NewRequestWithContext(c, method, raw, query) ==
    IF c = "nil" THEN [err |-> "net/http: nil Context", req |-> NilRequest]
    ELSE IF ~ParseOK(raw) THEN [err |-> "net/url: invalid control character in URL", req |-> NilRequest]
    ELSE [err |-> "",
          req |-> [isNil |-> FALSE, Method |-> method, URL |-> raw, Query |-> query,
                   hasBody |-> FALSE]]

(* Session.Exec(req, out, in...): the session answers with a transport     *)
(* error or with a response; it unmarshals the body into out only when     *)
(* the body is well-formed JSON.  A nil request is dereferenced: a panic.  *)
TransportError(cause) ==
    ErrorfW(<<"Get: ", cause>>, <<Sentinel(cause, cause)>>)

Exec(req, rep) ==
    IF req.isNil
    THEN [panic |-> TRUE, err |-> <<>>, resp |-> IdleResponse, decoded |-> ZeroData, isJSON |-> FALSE]
    ELSE IF rep.kind = "error"
    THEN [panic |-> FALSE, err |-> TransportError(rep.cause), resp |-> IdleResponse,
          decoded |-> ZeroData, isJSON |-> FALSE]
    ELSE [panic |-> FALSE, err |-> <<>>,
          resp |-> [StatusCode |-> rep.StatusCode, Body |-> rep.Body],
          decoded |-> IF rep.Body.kind = "json" THEN rep.Body.data ELSE ZeroData,
          isJSON |-> rep.Body.kind = "json"]

(* The error mappers of edgeworkers, cloudlets and papi (session.NewAPIError): *)
(* decode the body into the Error shape; on decode failure carry the raw    *)
(* body text as Title; keep the status code in every case.                 *)
apiError(resp) ==
    LET read == ReadAll(resp.Body) IN
    IF read.err # ""
    THEN <<ApiLink([ZeroError EXCEPT !.StatusCode = resp.StatusCode,
                                     !.Title = "Failed to read error body",
                                     !.Detail = read.err, !.addr = 1])>>
    ELSE LET dec == Unmarshal(read.body)
             filled == IF dec.err # ""
                       THEN [ZeroError EXCEPT !.Title = read.body.raw]
                       ELSE dec.val
         IN <<ApiLink([filled EXCEPT !.StatusCode = resp.StatusCode, !.addr = 1])>>

(* What an operation returns. *)
Ret(res, er, execs) == [result |-> res, err |-> er, execs |-> execs, panicked |-> FALSE]
Panic(execs) == [result |-> NilResult, err |-> <<>>, execs |-> execs, panicked |-> TRUE]
Pointer(data) == [isNil |-> FALSE, data |-> data, id |-> ""]

(* Sentinels of the packages. *)
ErrStructValidation == <<Sentinel("ErrStructValidation", "struct validation")>>
ErrListDeactivations == <<Sentinel("ErrListDeactivations", "list deactivations")>>
ErrDeactivateVersion == <<Sentinel("ErrDeactivateVersion", "deactivate version")>>
ErrGetDeactivation == <<Sentinel("ErrGetDeactivation", "get deactivation")>>
ErrGetPolicyProperties == <<Sentinel("ErrGetPolicyProperties", "get policy properties")>>
ErrDeletePolicyProperty == <<Sentinel("ErrDeletePolicyProperty", "delete policy property")>>
SessionErrNotFound == <<Sentinel("session.ErrNotFound", "resource not found")>>
ErrInvalidLocation == <<Sentinel("tools.ErrInvalidLocation", "response location URL is invalid")>>

----------------------------------------------------------------------------
(* edgeworkers/deactivations.go *)
ActivationNetworkStaging == "STAGING"
ActivationNetworkProduction == "PRODUCTION"

(* (r *EdgeWorkerListDeactivationsRequest) Validate() *)
ValidateListDeactivations(p) ==
    Filter(<<Field("EdgeWorkerID", Required(p.EdgeWorkerID, 0))>>)

(* (r *EdgeWorkerDeactivateVersionRequest) Validate() *)
ValidateDeactivateVersion(p) ==
    Filter(<<Field("Body.Network",
                   FirstOf(<<Required(p.Body.Network, ""),
                             IF In(p.Body.Network, "",
                                   {ActivationNetworkProduction, ActivationNetworkStaging}) # ""
                             THEN "value is invalid. Must be one of: 'STAGING' or 'PRODUCTION'"
                             ELSE "">>)),
             Field("Body.Version", Required(p.Body.Version, "")),
             Field("EdgeWorkerID", Required(p.EdgeWorkerID, 0))>>)

(* (r *EdgeWorkerGetDeactivationRequest) Validate() *)
ValidateGetDeactivation(p) ==
    Filter(<<Field("DeactivationID", Required(p.DeactivationID, 0)),
             Field("EdgeWorkerID", Required(p.EdgeWorkerID, 0))>>)

ListDeactivations(p, c, rep) ==
    LET v == ValidateListDeactivations(p)
        raw == <<"/edgeworkers/v1/ids/", Itoa(p.EdgeWorkerID), "/deactivations">>
        q == IF p.Version # "" THEN << <<"version", p.Version>> >> ELSE <<>>
        nr == NewRequestWithContext(c, "GET", raw, q)
        out == Exec(nr.req, rep)
    IN
    IF v # <<>>
    THEN Ret(NilResult,
             ErrorfW(Text(ErrListDeactivations) \o <<": ">> \o Text(ErrStructValidation)
                        \o <<": ">> \o Text(ValidationError(v)),
                     ErrStructValidation), <<>>)
    ELSE IF ~ParseOK(raw)
    THEN Ret(NilResult,
             ErrorfW(Text(ErrListDeactivations) \o <<": failed to parse URL: ">>,
                     ErrListDeactivations), <<>>)
    ELSE IF nr.err # ""
    THEN Ret(NilResult,
             ErrorfW(Text(ErrListDeactivations) \o <<": failed to create request: ", nr.err>>,
                     ErrListDeactivations), <<>>)
    ELSE IF out.err # <<>>
    THEN Ret(NilResult,
             ErrorfW(Text(ErrListDeactivations) \o <<": request failed: ">> \o Text(out.err),
                     ErrListDeactivations), <<nr.req>>)
    ELSE IF out.resp.StatusCode # StatusOK
    THEN Ret(NilResult,
             ErrorfW(Text(ErrListDeactivations) \o <<": ">> \o Text(apiError(out.resp)),
                     apiError(out.resp)), <<nr.req>>)
    ELSE Ret(Pointer(out.decoded), <<>>, <<nr.req>>)

(* DeactivateVersion taking 200 as well as 201 for success. *)
DeactivateVersionAcceptingOK(p, c, rep) ==
    LET v == ValidateDeactivateVersion(p)
        raw == <<"/edgeworkers/v1/ids/", Itoa(p.EdgeWorkerID), "/deactivations">>
        nr == NewRequestWithContext(c, "POST", raw, <<>>)
        req == [nr.req EXCEPT !.hasBody = TRUE]
        out == Exec(req, rep)
    IN
    IF v # <<>>
    THEN Ret(NilResult,
             ErrorfW(Text(ErrDeactivateVersion) \o <<": ">> \o Text(ErrStructValidation)
                        \o <<": ">> \o Text(ValidationError(v)),
                     ErrStructValidation), <<>>)
    ELSE IF ~ParseOK(raw)
    THEN Ret(NilResult,
             ErrorfW(Text(ErrDeactivateVersion) \o <<": failed to parse URL: ">>,
                     ErrDeactivateVersion), <<>>)
    ELSE IF nr.err # ""
    THEN Ret(NilResult,
             ErrorfW(Text(ErrDeactivateVersion) \o <<": failed to create request: ", nr.err>>,
                     ErrDeactivateVersion), <<>>)
    ELSE IF out.err # <<>>
    THEN Ret(NilResult,
             ErrorfW(Text(ErrDeactivateVersion) \o <<": request failed: ">> \o Text(out.err),
                     ErrDeactivateVersion), <<req>>)
    ELSE IF out.resp.StatusCode # StatusCreated /\ out.resp.StatusCode # StatusOK
    THEN Ret(NilResult,
             ErrorfW(Text(ErrDeactivateVersion) \o <<": ">> \o Text(apiError(out.resp)),
                     apiError(out.resp)), <<req>>)
    ELSE Ret(Pointer(out.decoded), <<>>, <<req>>)

DeactivateVersion(p, c, rep) ==
    LET v == ValidateDeactivateVersion(p)
        raw == <<"/edgeworkers/v1/ids/", Itoa(p.EdgeWorkerID), "/deactivations">>
        nr == NewRequestWithContext(c, "POST", raw, <<>>)
        req == [nr.req EXCEPT !.hasBody = TRUE]
        out == Exec(req, rep)
    IN
    IF v # <<>>
    THEN Ret(NilResult,
             ErrorfW(Text(ErrDeactivateVersion) \o <<": ">> \o Text(ErrStructValidation)
                        \o <<": ">> \o Text(ValidationError(v)),
                     ErrStructValidation), <<>>)
    ELSE IF ~ParseOK(raw)
    THEN Ret(NilResult,
             ErrorfW(Text(ErrDeactivateVersion) \o <<": failed to parse URL: ">>,
                     ErrDeactivateVersion), <<>>)
    ELSE IF nr.err # ""
    THEN Ret(NilResult,
             ErrorfW(Text(ErrDeactivateVersion) \o <<": failed to create request: ", nr.err>>,
                     ErrDeactivateVersion), <<>>)
    ELSE IF out.err # <<>>
    THEN Ret(NilResult,
             ErrorfW(Text(ErrDeactivateVersion) \o <<": request failed: ">> \o Text(out.err),
                     ErrDeactivateVersion), <<req>>)
    ELSE IF out.resp.StatusCode # StatusCreated
    THEN Ret(NilResult,
             ErrorfW(Text(ErrDeactivateVersion) \o <<": ">> \o Text(apiError(out.resp)),
                     apiError(out.resp)), <<req>>)
    ELSE Ret(Pointer(out.decoded), <<>>, <<req>>)

(* GetDeactivation does not test the error of NewRequestWithContext: a nil  *)
(* request reaches Exec.                                                   *)
GetDeactivation(p, c, rep) ==
    LET v == ValidateGetDeactivation(p)
        raw == <<"/edgeworkers/v1/ids/", Itoa(p.EdgeWorkerID), "/deactivations/",
                 Itoa(p.DeactivationID)>>
        nr == NewRequestWithContext(c, "GET", raw, <<>>)
        out == Exec(nr.req, rep)
    IN
    IF v # <<>>
    THEN Ret(NilResult,
             ErrorfW(Text(ErrGetDeactivation) \o <<": ">> \o Text(ErrStructValidation)
                        \o <<": ">> \o Text(ValidationError(v)),
                     ErrStructValidation), <<>>)
    ELSE IF ~ParseOK(raw)
    THEN Ret(NilResult,
             ErrorfW(Text(ErrGetDeactivation) \o <<": failed to parse URL: ">>,
                     ErrGetDeactivation), <<>>)
    ELSE IF out.panic
    THEN Panic(<<nr.req>>)
    ELSE IF out.err # <<>>
    THEN Ret(NilResult,
             ErrorfW(Text(ErrGetDeactivation) \o <<": request failed: ">> \o Text(out.err),
                     ErrGetDeactivation), <<nr.req>>)
    ELSE IF out.resp.StatusCode # StatusOK
    THEN Ret(NilResult,
             ErrorfW(Text(ErrGetDeactivation) \o <<": ">> \o Text(apiError(out.resp)),
                     apiError(out.resp)), <<nr.req>>)
    ELSE Ret(Pointer(out.decoded), <<>>, <<nr.req>>)

----------------------------------------------------------------------------
(* cloudlets/policy_property.go *)

(* (r DeletePolicyPropertyRequest) Validate() *)
ValidateDeletePolicyProperty(p) ==
    Filter(<<Field("PolicyID", Required(p.PolicyID, 0)),
             Field("PropertyID", Required(p.PropertyID, 0))>>)

(* GetPolicyProperties answering an Exec error with an empty result. *)
GetPolicyPropertiesIgnoringExecError(p, c, rep) ==
    LET raw == <<"/cloudlets/api/v2/policies/", Itoa(p.policyID), "/properties">>
        nr == NewRequestWithContext(c, "GET", raw, <<>>)
        out == Exec(nr.req, rep)
    IN
    IF ~ParseOK(raw)
    THEN Ret(NilResult,
             ErrorfW(Text(ErrGetPolicyProperties) \o <<": failed to parse url: ">>,
                     ErrGetPolicyProperties), <<>>)
    ELSE IF nr.err # ""
    THEN Ret(NilResult,
             ErrorfW(Text(ErrGetPolicyProperties) \o <<": failed to create request: ", nr.err>>,
                     ErrGetPolicyProperties), <<>>)
    ELSE IF out.err # <<>>
    THEN Ret(Pointer(ZeroData), <<>>, <<nr.req>>)
    ELSE IF out.resp.StatusCode # StatusOK
    THEN Ret(NilResult,
             ErrorfW(Text(ErrGetPolicyProperties) \o <<": ">> \o Text(apiError(out.resp)),
                     apiError(out.resp)), <<nr.req>>)
    ELSE Ret([isNil |-> ~out.isJSON, data |-> out.decoded, id |-> ""], <<>>, <<nr.req>>)

(* GetPolicyProperties takes the bare policyID: there is nothing to validate. *)
GetPolicyProperties(p, c, rep) ==
    LET raw == <<"/cloudlets/api/v2/policies/", Itoa(p.policyID), "/properties">>
        nr == NewRequestWithContext(c, "GET", raw, <<>>)
        out == Exec(nr.req, rep)
    IN
    IF ~ParseOK(raw)
    THEN Ret(NilResult,
             ErrorfW(Text(ErrGetPolicyProperties) \o <<": failed to parse url: ">>,
                     ErrGetPolicyProperties), <<>>)
    ELSE IF nr.err # ""
    THEN Ret(NilResult,
             ErrorfW(Text(ErrGetPolicyProperties) \o <<": failed to create request: ", nr.err>>,
                     ErrGetPolicyProperties), <<>>)
    ELSE IF out.err # <<>>
    THEN Ret(NilResult,
             ErrorfW(Text(ErrGetPolicyProperties) \o <<": request failed: ">> \o Text(out.err),
                     ErrGetPolicyProperties), <<nr.req>>)
    ELSE IF out.resp.StatusCode # StatusOK
    THEN Ret(NilResult,
             ErrorfW(Text(ErrGetPolicyProperties) \o <<": ">> \o Text(apiError(out.resp)),
                     apiError(out.resp)), <<nr.req>>)
    ELSE Ret([isNil |-> ~out.isJSON, data |-> out.decoded, id |-> ""], <<>>, <<nr.req>>)

(* DeletePolicyProperty returns an error only; result stays the nil result. *)
DeletePolicyProperty(p, c, rep) ==
    LET v == ValidateDeletePolicyProperty(p)
        raw == <<"/cloudlets/api/v2/policies/", Itoa(p.PolicyID), "/properties/",
                 Itoa(p.PropertyID)>>
        q == IF p.Network # "" THEN << <<"network", p.Network>> >> ELSE <<>>
        nr == NewRequestWithContext(c, "DELETE", raw, q)
        out == Exec(nr.req, rep)
    IN
    IF v # <<>>
    THEN Ret(NilResult,
             ErrorfW(Text(ErrDeletePolicyProperty) \o <<": ">> \o Text(ErrStructValidation)
                        \o <<": ">> \o Text(ValidationError(v)),
                     ErrStructValidation), <<>>)
    ELSE IF ~ParseOK(raw)
    THEN Ret(NilResult,
             ErrorfW(Text(ErrDeletePolicyProperty) \o <<": failed to parse url: ">>,
                     ErrDeletePolicyProperty), <<>>)
    ELSE IF nr.err # ""
    THEN Ret(NilResult,
             ErrorfW(Text(ErrDeletePolicyProperty) \o <<": failed to create request: ", nr.err>>,
                     ErrDeletePolicyProperty), <<>>)
    ELSE IF out.err # <<>>
    THEN Ret(NilResult,
             ErrorfW(Text(ErrDeletePolicyProperty) \o <<": request failed: ">> \o Text(out.err),
                     ErrDeletePolicyProperty), <<nr.req>>)
    ELSE IF out.resp.StatusCode # StatusNoContent
    THEN Ret(NilResult,
             ErrorfW(Text(ErrDeletePolicyProperty) \o <<": ", Itoa(out.resp.StatusCode)>>,
                     ErrDeletePolicyProperty), <<nr.req>>)
    ELSE Ret(NilResult, <<>>, <<nr.req>>)

----------------------------------------------------------------------------
(* gtm/cidrmap.go: a CidrMap is [Name, DefaultDatacenter], the latter "nil" *)
(* or a datacenter.                                                        *)
PlainError(msg) == <<[kind |-> "plain", name |-> "", text |-> <<msg>>, e |-> ZeroError]>>

(* (cidr *CidrMap) Validate(): the first missing field only. *)
ValidateCidrMap(cidr) ==
    IF cidr.Name = "" THEN Errorf(<<"CidrMap is missing ", "Name">>)
    ELSE IF cidr.DefaultDatacenter = "nil"
    THEN Errorf(<<"CidrMap is missing ", "DefaultDatacenter">>)
    ELSE <<>>

(* ListCidrMaps recovering from a non-success status with an empty list. *)
ListCidrMapsRecovering(p, c, rep) ==
    LET getURL == <<"/config-gtm/v1/domains/", p.domainName, "/cidr-maps">>
        nr == NewRequestWithContext(c, "GET", getURL, <<>>)
        out == Exec(nr.req, rep)
    IN
    IF nr.err # ""
    THEN Ret(NilResult,
             ErrorfW(<<"failed to create ListCidrMaps request: ", nr.err>>, PlainError(nr.err)),
             <<>>)
    ELSE IF out.err # <<>>
    THEN Ret(NilResult, ErrorfW(<<"ListCidrMaps request failed: ">> \o Text(out.err), out.err),
             <<nr.req>>)
    ELSE IF out.resp.StatusCode # StatusOK
    THEN Ret(Pointer(ZeroData), <<>>, <<nr.req>>)
    ELSE Ret([isNil |-> ~out.decoded.items, data |-> out.decoded, id |-> ""], <<>>, <<nr.req>>)

ListCidrMaps(p, c, rep) ==
    LET getURL == <<"/config-gtm/v1/domains/", p.domainName, "/cidr-maps">>
        nr == NewRequestWithContext(c, "GET", getURL, <<>>)
        out == Exec(nr.req, rep)
    IN
    IF nr.err # ""
    THEN Ret(NilResult,
             ErrorfW(<<"failed to create ListCidrMaps request: ", nr.err>>, PlainError(nr.err)),
             <<>>)
    ELSE IF out.err # <<>>
    THEN Ret(NilResult, ErrorfW(<<"ListCidrMaps request failed: ">> \o Text(out.err), out.err),
             <<nr.req>>)
    ELSE IF out.resp.StatusCode # StatusOK
    THEN Ret(NilResult, gtmError(out.resp), <<nr.req>>)
    ELSE Ret([isNil |-> ~out.decoded.items, data |-> out.decoded, id |-> ""], <<>>, <<nr.req>>)

(* GetCidrMap sending the request a second time when the first attempt     *)
(* ends in a transport error.                                              *)
GetCidrMapRetrying(p, c, rep) ==
    LET getURL == <<"/config-gtm/v1/domains/", p.domainName, "/cidr-maps/", p.name>>
        nr == NewRequestWithContext(c, "GET", getURL, <<>>)
        out == Exec(nr.req, rep)
    IN
    IF nr.err # ""
    THEN Ret(NilResult,
             ErrorfW(<<"failed to create GetCidrMap request: ", nr.err>>, PlainError(nr.err)),
             <<>>)
    ELSE IF out.err # <<>>
    THEN Ret(NilResult, ErrorfW(<<"GetCidrMap request failed: ">> \o Text(out.err), out.err),
             <<nr.req, nr.req>>)
    ELSE IF out.resp.StatusCode # StatusOK
    THEN Ret(NilResult, gtmError(out.resp), <<nr.req>>)
    ELSE Ret(Pointer(out.decoded), <<>>, <<nr.req>>)

GetCidrMap(p, c, rep) ==
    LET getURL == <<"/config-gtm/v1/domains/", p.domainName, "/cidr-maps/", p.name>>
        nr == NewRequestWithContext(c, "GET", getURL, <<>>)
        out == Exec(nr.req, rep)
    IN
    IF nr.err # ""
    THEN Ret(NilResult,
             ErrorfW(<<"failed to create GetCidrMap request: ", nr.err>>, PlainError(nr.err)),
             <<>>)
    ELSE IF out.err # <<>>
    THEN Ret(NilResult, ErrorfW(<<"GetCidrMap request failed: ">> \o Text(out.err), out.err),
             <<nr.req>>)
    ELSE IF out.resp.StatusCode # StatusOK
    THEN Ret(NilResult, gtmError(out.resp), <<nr.req>>)
    ELSE Ret(Pointer(out.decoded), <<>>, <<nr.req>>)

(* save with the Validate call left out. *)
saveNoValidation(p, c, rep) ==
    LET putURL == <<"/config-gtm/v1/domains/", p.domainName, "/cidr-maps/", p.cidr.Name>>
        nr == NewRequestWithContext(c, "PUT", putURL, <<>>)
        req == [nr.req EXCEPT !.hasBody = TRUE]
        out == Exec(req, rep)
    IN
    IF nr.err # ""
    THEN Ret(NilResult,
             ErrorfW(<<"failed to create AsMap request: ", nr.err>>, PlainError(nr.err)), <<>>)
    ELSE IF out.err # <<>>
    THEN Ret(NilResult, ErrorfW(<<"CidrMap request failed: ">> \o Text(out.err), out.err),
             <<req>>)
    ELSE IF out.resp.StatusCode # StatusOK /\ out.resp.StatusCode # StatusCreated
    THEN Ret(NilResult, gtmError(out.resp), <<req>>)
    ELSE Ret(Pointer(out.decoded), <<>>, <<req>>)

(* (cidr *CidrMap) save: the common path of CreateCidrMap and UpdateCidrMap. *)
save(p, c, rep) ==
    LET v == ValidateCidrMap(p.cidr)
        putURL == <<"/config-gtm/v1/domains/", p.domainName, "/cidr-maps/", p.cidr.Name>>
        nr == NewRequestWithContext(c, "PUT", putURL, <<>>)
        req == [nr.req EXCEPT !.hasBody = TRUE]
        out == Exec(req, rep)
    IN
    IF v # <<>>
    THEN Ret(NilResult, ErrorfW(<<"CidrMap validation failed. ">> \o Text(v), v), <<>>)
    ELSE IF nr.err # ""
    THEN Ret(NilResult,
             ErrorfW(<<"failed to create AsMap request: ", nr.err>>, PlainError(nr.err)), <<>>)
    ELSE IF out.err # <<>>
    THEN Ret(NilResult, ErrorfW(<<"CidrMap request failed: ">> \o Text(out.err), out.err),
             <<req>>)
    ELSE IF out.resp.StatusCode # StatusOK /\ out.resp.StatusCode # StatusCreated
    THEN Ret(NilResult, gtmError(out.resp), <<req>>)
    ELSE Ret(Pointer(out.decoded), <<>>, <<req>>)

(* CreateCidrMap saving without the Validate call. *)
CreateCidrMapNoValidation(p, c, rep) == saveNoValidation(p, c, rep)

CreateCidrMap(p, c, rep) == save(p, c, rep)

(* UpdateCidrMap returns the Status member of what save decoded. *)
UpdateCidrMap(p, c, rep) ==
    LET stat == save(p, c, rep) IN
    IF stat.err # <<>> THEN Ret(NilResult, stat.err, stat.execs)
    ELSE Ret([isNil |-> ~stat.result.data.status, data |-> stat.result.data, id |-> ""],
             stat.err, stat.execs)

(* DeleteCidrMap taking 204, not 200, for its success status. *)
DeleteCidrMapExpects204(p, c, rep) ==
    LET v == ValidateCidrMap(p.cidr)
        delURL == <<"/config-gtm/v1/domains/", p.domainName, "/cidr-maps/", p.cidr.Name>>
        nr == NewRequestWithContext(c, "DELETE", delURL, <<>>)
        out == Exec(nr.req, rep)
    IN
    IF v # <<>>
    THEN Ret(NilResult, ErrorfW(<<"CidrMap validation failed. ">> \o Text(v), v), <<>>)
    ELSE IF nr.err # ""
    THEN Ret(NilResult,
             ErrorfW(<<"failed to create Delete request: ", nr.err>>, PlainError(nr.err)), <<>>)
    ELSE IF out.err # <<>>
    THEN Ret(NilResult, ErrorfW(<<"CidrMap request failed: ">> \o Text(out.err), out.err),
             <<nr.req>>)
    ELSE IF out.resp.StatusCode # StatusNoContent
    THEN Ret(NilResult, gtmError(out.resp), <<nr.req>>)
    ELSE Ret([isNil |-> ~out.decoded.status, data |-> out.decoded, id |-> ""], <<>>, <<nr.req>>)

DeleteCidrMap(p, c, rep) ==
    LET v == ValidateCidrMap(p.cidr)
        delURL == <<"/config-gtm/v1/domains/", p.domainName, "/cidr-maps/", p.cidr.Name>>
        nr == NewRequestWithContext(c, "DELETE", delURL, <<>>)
        out == Exec(nr.req, rep)
    IN
    IF v # <<>>
    THEN Ret(NilResult, ErrorfW(<<"CidrMap validation failed. ">> \o Text(v), v), <<>>)
    ELSE IF nr.err # ""
    THEN Ret(NilResult,
             ErrorfW(<<"failed to create Delete request: ", nr.err>>, PlainError(nr.err)), <<>>)
    ELSE IF out.err # <<>>
    THEN Ret(NilResult, ErrorfW(<<"CidrMap request failed: ">> \o Text(out.err), out.err),
             <<nr.req>>)
    ELSE IF out.resp.StatusCode # StatusOK
    THEN Ret(NilResult, gtmError(out.resp), <<nr.req>>)
    ELSE Ret([isNil |-> ~out.decoded.status, data |-> out.decoded, id |-> ""], <<>>, <<nr.req>>)

----------------------------------------------------------------------------
(* papi edge hostnames (src/unnamed/part_002) *)
EHSecureNetworkStandardTLS == "STANDARD_TLS"
EHSecureNetworkSharedCert == "SHARED_CERT"
EHSecureNetworkEnhancedTLS == "ENHANCED_TLS"
EHIPVersionV4 == "IPV4"
EHIPVersionV6Compliance == "IPV4"
UseCaseGlobal == "GLOBAL"

(* (uc UseCase) Validate() *)
ValidateUseCase(uc) ==
    Filter(<<Field("Option", Required(uc.Option, "")),
             Field("Type", FirstOf(<<Required(uc.Type, ""), In(uc.Type, "", {UseCaseGlobal})>>)),
             Field("UseCase", Required(uc.UseCase, ""))>>)

(* validation.Validate on a slice of UseCase: the failures of its elements. *)
RECURSIVE ValidateUseCases(_, _)
ValidateUseCases(ucs, i) ==
    IF i > Len(ucs) THEN <<>>
    ELSE (IF ValidateUseCase(ucs[i]) = <<>> THEN <<>>
          ELSE <<Nested(Itoa(i - 1), ValidateUseCase(ucs[i]))>>)
         \o ValidateUseCases(ucs, i + 1)

(* (eh EdgeHostnameCreate) Validate() *)
ValidateEdgeHostnameCreate(eh) ==
    Filter(<<Field("CertEnrollmentID",
                   When(eh.SecureNetwork = EHSecureNetworkEnhancedTLS,
                        Required(eh.CertEnrollmentID, 0))),
             Field("DomainPrefix", Required(eh.DomainPrefix, "")),
             Field("DomainSuffix",
                   FirstOf(<<Required(eh.DomainSuffix, ""),
                             When(eh.SecureNetwork = EHSecureNetworkStandardTLS,
                                  In(eh.DomainSuffix, "", {"edgesuite.net"})),
                             When(eh.SecureNetwork = EHSecureNetworkSharedCert,
                                  In(eh.DomainSuffix, "", {"akamaized.net"})),
                             When(eh.SecureNetwork = EHSecureNetworkEnhancedTLS,
                                  In(eh.DomainSuffix, "", {"edgekey.net"}))>>)),
             Field("IPVersionBehavior",
                   FirstOf(<<Required(eh.IPVersionBehavior, ""),
                             In(eh.IPVersionBehavior, "",
                                {EHIPVersionV4, EHIPVersionV6Compliance})>>)),
             Field("ProductID", Required(eh.ProductID, "")),
             Field("SecureNetwork",
                   In(eh.SecureNetwork, "",
                      {EHSecureNetworkStandardTLS, EHSecureNetworkSharedCert,
                       EHSecureNetworkEnhancedTLS})),
             Nested("UseCases", ValidateUseCases(eh.UseCases, 1))>>)

(* (eh CreateEdgeHostnameRequest) Validate() *)
ValidateCreateEdgeHostname(p) ==
    Filter(<<Field("ContractID", Required(p.ContractID, "")),
             Nested("EdgeHostname", ValidateEdgeHostnameCreate(p.EdgeHostname)),
             Field("GroupID", Required(p.GroupID, ""))>>)

(* (eh GetEdgeHostnamesRequest) Validate() *)
ValidateGetEdgeHostnames(p) ==
    Filter(<<Field("ContractID", Required(p.ContractID, "")),
             Field("GroupID", Required(p.GroupID, ""))>>)

(* (eh GetEdgeHostnameRequest) Validate() *)
ValidateGetEdgeHostname(p) ==
    Filter(<<Field("ContractID", Required(p.ContractID, "")),
             Field("EdgeHostnameID", Required(p.EdgeHostnameID, "")),
             Field("GroupID", Required(p.GroupID, ""))>>)

(* strings.Join(options, ",") appended as &options= *)
RECURSIVE Join(_)
Join(options) ==
    IF options = <<>> THEN <<>>
    ELSE IF Len(options) = 1 THEN <<options[1]>>
    ELSE <<options[1], ",">> \o Join(Tail(options))

WithOptions(raw, options) == IF Len(options) > 0 THEN raw \o <<"&options=">> \o Join(options) ELSE raw

(* tools.FetchIDFromLocation: the last path segment of the link, or an      *)
(* error when the link does not parse as a URL.                            *)
FetchIDFromLocation(link) ==
    IF ~link.valid THEN [id |-> "", err |-> PlainError("invalid URL escape")]
    ELSE [id |-> IF link.path = <<>> THEN "" ELSE link.path[Len(link.path)], err |-> <<>>]

GetEdgeHostnames(p, c, rep) ==
    LET v == ValidateGetEdgeHostnames(p)
        getURL == WithOptions(<<"/papi/v1/edgehostnames?contractId=", p.ContractID,
                                "&groupId=", p.GroupID>>, p.Options)
        nr == NewRequestWithContext(c, "GET", getURL, <<>>)
        out == Exec(nr.req, rep)
    IN
    IF v # <<>>
    THEN Ret(NilResult,
             ErrorfW(Text(ErrStructValidation) \o <<": ">> \o Text(ValidationError(v)),
                     ErrStructValidation), <<>>)
    ELSE IF nr.err # ""
    THEN Ret(NilResult,
             ErrorfW(<<"failed to create getedgehostnames request: ", nr.err>>,
                     PlainError(nr.err)), <<>>)
    ELSE IF out.err # <<>>
    THEN Ret(NilResult,
             ErrorfW(<<"getedgehostnames request failed: ">> \o Text(out.err), out.err),
             <<nr.req>>)
    ELSE IF out.resp.StatusCode = StatusNotFound
    THEN Ret(NilResult,
             ErrorfW(Text(SessionErrNotFound) \o <<": ">> \o getURL, SessionErrNotFound),
             <<nr.req>>)
    ELSE IF out.resp.StatusCode # StatusOK
    THEN Ret(NilResult, apiError(out.resp), <<nr.req>>)
    ELSE Ret(Pointer(out.decoded), <<>>, <<nr.req>>)

(* GetEdgeHostname without the 404 branch. *)
GetEdgeHostnameNoNotFoundBranch(p, c, rep) ==
    LET v == ValidateGetEdgeHostname(p)
        getURL == WithOptions(<<"/papi/v1/edgehostnames/", p.EdgeHostnameID, "?contractId=",
                                p.ContractID, "&groupId=", p.GroupID>>, p.Options)
        nr == NewRequestWithContext(c, "GET", getURL, <<>>)
        out == Exec(nr.req, rep)
    IN
    IF v # <<>>
    THEN Ret(NilResult,
             ErrorfW(Text(ErrStructValidation) \o <<": ">> \o Text(ValidationError(v)),
                     ErrStructValidation), <<>>)
    ELSE IF nr.err # ""
    THEN Ret(NilResult,
             ErrorfW(<<"failed to create getedgehostname request: ", nr.err>>,
                     PlainError(nr.err)), <<>>)
    ELSE IF out.err # <<>>
    THEN Ret(NilResult,
             ErrorfW(<<"getedgehostname request failed: ">> \o Text(out.err), out.err),
             <<nr.req>>)
    ELSE IF out.resp.StatusCode # StatusOK
    THEN Ret(NilResult, apiError(out.resp), <<nr.req>>)
    ELSE Ret(Pointer(out.decoded), <<>>, <<nr.req>>)

GetEdgeHostname(p, c, rep) ==
    LET v == ValidateGetEdgeHostname(p)
        getURL == WithOptions(<<"/papi/v1/edgehostnames/", p.EdgeHostnameID, "?contractId=",
                                p.ContractID, "&groupId=", p.GroupID>>, p.Options)
        nr == NewRequestWithContext(c, "GET", getURL, <<>>)
        out == Exec(nr.req, rep)
    IN
    IF v # <<>>
    THEN Ret(NilResult,
             ErrorfW(Text(ErrStructValidation) \o <<": ">> \o Text(ValidationError(v)),
                     ErrStructValidation), <<>>)
    ELSE IF nr.err # ""
    THEN Ret(NilResult,
             ErrorfW(<<"failed to create getedgehostname request: ", nr.err>>,
                     PlainError(nr.err)), <<>>)
    ELSE IF out.err # <<>>
    THEN Ret(NilResult,
             ErrorfW(<<"getedgehostname request failed: ">> \o Text(out.err), out.err),
             <<nr.req>>)
    ELSE IF out.resp.StatusCode = StatusNotFound
    THEN Ret(NilResult,
             ErrorfW(Text(SessionErrNotFound) \o <<": ">> \o getURL, SessionErrNotFound),
             <<nr.req>>)
    ELSE IF out.resp.StatusCode # StatusOK
    THEN Ret(NilResult, apiError(out.resp), <<nr.req>>)
    ELSE Ret(Pointer(out.decoded), <<>>, <<nr.req>>)

CreateEdgeHostname(p, c, rep) ==
    LET v == ValidateCreateEdgeHostname(p)
        createURL == WithOptions(<<"/papi/v1/edgehostnames?contractId=", p.ContractID,
                                   "&groupId=", p.GroupID>>, p.Options)
        nr == NewRequestWithContext(c, "POST", createURL, <<>>)
        req == [nr.req EXCEPT !.hasBody = TRUE]
        out == Exec(req, rep)
        loc == FetchIDFromLocation(out.decoded.link)
    IN
    IF v # <<>>
    THEN Ret(NilResult,
             ErrorfW(Text(ErrStructValidation) \o <<": ">> \o Text(ValidationError(v)),
                     ErrStructValidation), <<>>)
    ELSE IF nr.err # ""
    THEN Ret(NilResult,
             ErrorfW(<<"failed to create createedgehostname request: ", nr.err>>,
                     PlainError(nr.err)), <<>>)
    ELSE IF out.err # <<>>
    THEN Ret(NilResult,
             ErrorfW(<<"createedgehostname request failed: ">> \o Text(out.err), out.err),
             <<req>>)
    ELSE IF out.resp.StatusCode # StatusCreated
    THEN Ret(NilResult, apiError(out.resp), <<req>>)
    ELSE IF loc.err # <<>>
    THEN Ret(NilResult,
             ErrorfW(Text(ErrInvalidLocation) \o <<": ">> \o Text(loc.err), ErrInvalidLocation),
             <<req>>)
    ELSE Ret([isNil |-> FALSE, data |-> out.decoded, id |-> loc.id], <<>>, <<req>>)

----------------------------------------------------------------------------
(* The inputs of the operations and the answers of the session. *)
Contexts == {"live", "canceled", "expired", "nil"}

OpStatusCodes ==
    {StatusOK, StatusCreated, StatusNoContent, StatusNotFound, StatusInternalServerError}

Links ==
    {NoLink,
     [valid |-> TRUE, path |-> <<"papi", "v1", "edgehostnames", "ehn_1">>],
     [valid |-> FALSE, path |-> <<"%zz">>]}

ProblemDetails ==
    [type |-> "internal_error", title |-> "Internal Server Error",
     detail |-> "Error fetching resource", instance |-> "", status |-> StatusInternalServerError]

ProblemDetailsWithInstance == [ProblemDetails EXCEPT !.instance = "x"]

OpBodies ==
    {[kind |-> "unreadable", raw |-> "", obj |-> ZeroObject, data |-> ZeroData],
     [kind |-> "text", raw |-> "", obj |-> ZeroObject, data |-> ZeroData],
     [kind |-> "text", raw |-> "test", obj |-> ZeroObject, data |-> ZeroData],
     [kind |-> "json", raw |-> "{}", obj |-> ProblemDetails, data |-> ZeroData],
     [kind |-> "json", raw |-> "{}", obj |-> ProblemDetailsWithInstance, data |-> ZeroData]}
    \cup {[kind |-> "json", raw |-> "{}", obj |-> ZeroObject, data |-> d] :
                d \in [items : BOOLEAN, status : BOOLEAN, link : Links]}

Replies(c) ==
    CASE c = "canceled" ->
            {[kind |-> "error", cause |-> "context canceled", StatusCode |-> 0,
              Body |-> IdleResponse.Body]}
      [] c = "expired" ->
            {[kind |-> "error", cause |-> "context deadline exceeded", StatusCode |-> 0,
              Body |-> IdleResponse.Body]}
      [] c = "nil" -> {NoReply}
      [] OTHER ->
            {[kind |-> "error", cause |-> "connection refused", StatusCode |-> 0,
              Body |-> IdleResponse.Body]}
            \cup [kind : {"response"}, cause : {""}, StatusCode : OpStatusCodes, Body : OpBodies]

DomainNames == {"", "example.akadns.net", ControlString}
CidrMapValues == [Name : {"", "cidrmap"}, DefaultDatacenter : {"nil", "dc"}]
ContractIDs == {"", "ctr_1", ControlString}
GroupIDs == {"", "grp_1"}
OptionLists == {<<>>, <<"opt1", "opt2">>}
ValidUseCase == [Option |-> "BACKGROUND", Type |-> UseCaseGlobal, UseCase |-> "Download_Mode"]
InvalidUseCase == [Option |-> "BACKGROUND", Type |-> "LOCAL", UseCase |-> ""]

EdgeHostnameCreateValues ==
    [ProductID : {"prd_1"}, DomainPrefix : {"", "www"},
     DomainSuffix : {"edgesuite.net", "edgekey.net"},
     Secure : {FALSE},
     SecureNetwork : {"", EHSecureNetworkStandardTLS, EHSecureNetworkEnhancedTLS},
     SlotNumber : {0}, IPVersionBehavior : {"IPV4", "IPV6_COMPLIANCE"},
     CertEnrollmentID : IDs, UseCases : {<<>>}]
    \cup [ProductID : {"prd_1"}, DomainPrefix : {"www"}, DomainSuffix : {"edgesuite.net"},
          Secure : {FALSE}, SecureNetwork : {EHSecureNetworkStandardTLS}, SlotNumber : {0},
          IPVersionBehavior : {"IPV4"}, CertEnrollmentID : {0},
          UseCases : {<<ValidUseCase>>, <<ValidUseCase, InvalidUseCase>>}]

ParamsOf(o) ==
    CASE o = "ListDeactivations" -> [EdgeWorkerID : IDs, Version : {"", "1.0"}]
      [] o = "DeactivateVersion" ->
            [EdgeWorkerID : IDs,
             Body : [Network : {"", ActivationNetworkStaging, ActivationNetworkProduction, "BOGUS"},
                     Note : {""}, Version : {"", "1.0"}]]
      [] o = "GetDeactivation" -> [EdgeWorkerID : IDs, DeactivationID : IDs]
      [] o = "GetPolicyProperties" -> [policyID : IDs]
      [] o = "DeletePolicyProperty" ->
            [PolicyID : IDs, PropertyID : IDs, Network : {"", "staging"}]
      [] o = "ListCidrMaps" -> [domainName : DomainNames]
      [] o = "GetCidrMap" -> [name : {"", "cidrmap"}, domainName : DomainNames]
      [] o \in {"CreateCidrMap", "UpdateCidrMap", "DeleteCidrMap"} ->
            [cidr : CidrMapValues, domainName : DomainNames]
      [] o = "GetEdgeHostnames" ->
            [ContractID : ContractIDs, GroupID : GroupIDs, Options : OptionLists]
      [] o = "GetEdgeHostname" ->
            [EdgeHostnameID : {"", "ehn_1"}, ContractID : ContractIDs, GroupID : GroupIDs,
             Options : OptionLists]
      [] o = "CreateEdgeHostname" ->
            [ContractID : ContractIDs, GroupID : GroupIDs, Options : {<<>>},
             EdgeHostname : EdgeHostnameCreateValues]

Init ==
    /\ IdleOps
    /\ pc = "init"
    /\ e = ZeroError
    /\ target = <<>>
    /\ isResult = FALSE
    /\ r = IdleResponse
    /\ mapped = <<>>
    /\ IdleClient

(* One action per exported operation: one invocation on an idle client,   *)
(* with the caller's parameters and context and the session's answer.     *)
(* The client keeps nothing between calls, so every invocation starts     *)
(* from the same state; a behaviour follows one invocation.  The answer   *)
(* of the session is part of the state only when Exec was reached.         *)
SeenReply(out, rep) == IF out.execs = <<>> \/ out.panicked THEN NoReply ELSE rep

CallListDeactivations ==
    /\ op = "none"
    /\ \E p \in ParamsOf("ListDeactivations"), c \in Contexts : \E rep \in Replies(c) :
        LET out == ListDeactivations(p, c, rep) IN
        /\ op' = "ListDeactivations"
        /\ params' = p
        /\ ctx' = c
        /\ reply' = SeenReply(out, rep)
        /\ execLog' = out.execs
        /\ result' = out.result
        /\ err' = out.err
        /\ panicked' = out.panicked
    /\ UNCHANGED <<pc, e, target, isResult, r, mapped, clientVars, validateVars>>

CallDeactivateVersion ==
    /\ op = "none"
    /\ \E p \in ParamsOf("DeactivateVersion"), c \in Contexts : \E rep \in Replies(c) :
        LET out == DeactivateVersion(p, c, rep) IN
        /\ op' = "DeactivateVersion"
        /\ params' = p
        /\ ctx' = c
        /\ reply' = SeenReply(out, rep)
        /\ execLog' = out.execs
        /\ result' = out.result
        /\ err' = out.err
        /\ panicked' = out.panicked
    /\ UNCHANGED <<pc, e, target, isResult, r, mapped, clientVars, validateVars>>

CallGetDeactivation ==
    /\ op = "none"
    /\ \E p \in ParamsOf("GetDeactivation"), c \in Contexts : \E rep \in Replies(c) :
        LET out == GetDeactivation(p, c, rep) IN
        /\ op' = "GetDeactivation"
        /\ params' = p
        /\ ctx' = c
        /\ reply' = SeenReply(out, rep)
        /\ execLog' = out.execs
        /\ result' = out.result
        /\ err' = out.err
        /\ panicked' = out.panicked
    /\ UNCHANGED <<pc, e, target, isResult, r, mapped, clientVars, validateVars>>

CallGetPolicyProperties ==
    /\ op = "none"
    /\ \E p \in ParamsOf("GetPolicyProperties"), c \in Contexts : \E rep \in Replies(c) :
        LET out == GetPolicyProperties(p, c, rep) IN
        /\ op' = "GetPolicyProperties"
        /\ params' = p
        /\ ctx' = c
        /\ reply' = SeenReply(out, rep)
        /\ execLog' = out.execs
        /\ result' = out.result
        /\ err' = out.err
        /\ panicked' = out.panicked
    /\ UNCHANGED <<pc, e, target, isResult, r, mapped, clientVars, validateVars>>

CallDeletePolicyProperty ==
    /\ op = "none"
    /\ \E p \in ParamsOf("DeletePolicyProperty"), c \in Contexts : \E rep \in Replies(c) :
        LET out == DeletePolicyProperty(p, c, rep) IN
        /\ op' = "DeletePolicyProperty"
        /\ params' = p
        /\ ctx' = c
        /\ reply' = SeenReply(out, rep)
        /\ execLog' = out.execs
        /\ result' = out.result
        /\ err' = out.err
        /\ panicked' = out.panicked
    /\ UNCHANGED <<pc, e, target, isResult, r, mapped, clientVars, validateVars>>

CallListCidrMaps ==
    /\ op = "none"
    /\ \E p \in ParamsOf("ListCidrMaps"), c \in Contexts : \E rep \in Replies(c) :
        LET out == ListCidrMaps(p, c, rep) IN
        /\ op' = "ListCidrMaps"
        /\ params' = p
        /\ ctx' = c
        /\ reply' = SeenReply(out, rep)
        /\ execLog' = out.execs
        /\ result' = out.result
        /\ err' = out.err
        /\ panicked' = out.panicked
    /\ UNCHANGED <<pc, e, target, isResult, r, mapped, clientVars, validateVars>>

CallGetCidrMap ==
    /\ op = "none"
    /\ \E p \in ParamsOf("GetCidrMap"), c \in Contexts : \E rep \in Replies(c) :
        LET out == GetCidrMap(p, c, rep) IN
        /\ op' = "GetCidrMap"
        /\ params' = p
        /\ ctx' = c
        /\ reply' = SeenReply(out, rep)
        /\ execLog' = out.execs
        /\ result' = out.result
        /\ err' = out.err
        /\ panicked' = out.panicked
    /\ UNCHANGED <<pc, e, target, isResult, r, mapped, clientVars, validateVars>>

CallCreateCidrMap ==
    /\ op = "none"
    /\ \E p \in ParamsOf("CreateCidrMap"), c \in Contexts : \E rep \in Replies(c) :
        LET out == CreateCidrMap(p, c, rep) IN
        /\ op' = "CreateCidrMap"
        /\ params' = p
        /\ ctx' = c
        /\ reply' = SeenReply(out, rep)
        /\ execLog' = out.execs
        /\ result' = out.result
        /\ err' = out.err
        /\ panicked' = out.panicked
    /\ UNCHANGED <<pc, e, target, isResult, r, mapped, clientVars, validateVars>>

CallUpdateCidrMap ==
    /\ op = "none"
    /\ \E p \in ParamsOf("UpdateCidrMap"), c \in Contexts : \E rep \in Replies(c) :
        LET out == UpdateCidrMap(p, c, rep) IN
        /\ op' = "UpdateCidrMap"
        /\ params' = p
        /\ ctx' = c
        /\ reply' = SeenReply(out, rep)
        /\ execLog' = out.execs
        /\ result' = out.result
        /\ err' = out.err
        /\ panicked' = out.panicked
    /\ UNCHANGED <<pc, e, target, isResult, r, mapped, clientVars, validateVars>>

CallDeleteCidrMap ==
    /\ op = "none"
    /\ \E p \in ParamsOf("DeleteCidrMap"), c \in Contexts : \E rep \in Replies(c) :
        LET out == DeleteCidrMap(p, c, rep) IN
        /\ op' = "DeleteCidrMap"
        /\ params' = p
        /\ ctx' = c
        /\ reply' = SeenReply(out, rep)
        /\ execLog' = out.execs
        /\ result' = out.result
        /\ err' = out.err
        /\ panicked' = out.panicked
    /\ UNCHANGED <<pc, e, target, isResult, r, mapped, clientVars, validateVars>>

CallGetEdgeHostnames ==
    /\ op = "none"
    /\ \E p \in ParamsOf("GetEdgeHostnames"), c \in Contexts : \E rep \in Replies(c) :
        LET out == GetEdgeHostnames(p, c, rep) IN
        /\ op' = "GetEdgeHostnames"
        /\ params' = p
        /\ ctx' = c
        /\ reply' = SeenReply(out, rep)
        /\ execLog' = out.execs
        /\ result' = out.result
        /\ err' = out.err
        /\ panicked' = out.panicked
    /\ UNCHANGED <<pc, e, target, isResult, r, mapped, clientVars, validateVars>>

CallGetEdgeHostname ==
    /\ op = "none"
    /\ \E p \in ParamsOf("GetEdgeHostname"), c \in Contexts : \E rep \in Replies(c) :
        LET out == GetEdgeHostname(p, c, rep) IN
        /\ op' = "GetEdgeHostname"
        /\ params' = p
        /\ ctx' = c
        /\ reply' = SeenReply(out, rep)
        /\ execLog' = out.execs
        /\ result' = out.result
        /\ err' = out.err
        /\ panicked' = out.panicked
    /\ UNCHANGED <<pc, e, target, isResult, r, mapped, clientVars, validateVars>>

CallCreateEdgeHostname ==
    /\ op = "none"
    /\ \E p \in ParamsOf("CreateEdgeHostname"), c \in Contexts : \E rep \in Replies(c) :
        LET out == CreateEdgeHostname(p, c, rep) IN
        /\ op' = "CreateEdgeHostname"
        /\ params' = p
        /\ ctx' = c
        /\ reply' = SeenReply(out, rep)
        /\ execLog' = out.execs
        /\ result' = out.result
        /\ err' = out.err
        /\ panicked' = out.panicked
    /\ UNCHANGED <<pc, e, target, isResult, r, mapped, clientVars, validateVars>>

Next ==
    \/ CallListDeactivations
    \/ CallDeactivateVersion
    \/ CallGetDeactivation
    \/ CallGetPolicyProperties
    \/ CallDeletePolicyProperty
    \/ CallListCidrMaps
    \/ CallGetCidrMap
    \/ CallCreateCidrMap
    \/ CallUpdateCidrMap
    \/ CallDeleteCidrMap
    \/ CallGetEdgeHostnames
    \/ CallGetEdgeHostname
    \/ CallCreateEdgeHostname

Spec == Init /\ [][Next]_vars

----------------------------------------------------------------------------
(* The required identifiers of the call's parameters are all present. *)
RequiredIdentifiersPresent ==
    CASE op = "ListDeactivations" -> params.EdgeWorkerID # 0
      [] op = "DeactivateVersion" -> params.EdgeWorkerID # 0
      [] op = "GetDeactivation" -> params.EdgeWorkerID # 0 /\ params.DeactivationID # 0
      [] op = "GetPolicyProperties" -> params.policyID # 0
      [] op = "DeletePolicyProperty" -> params.PolicyID # 0 /\ params.PropertyID # 0
      [] op = "ListCidrMaps" -> params.domainName # ""
      [] op = "GetCidrMap" -> params.domainName # "" /\ params.name # ""
      [] op \in {"CreateCidrMap", "UpdateCidrMap", "DeleteCidrMap"} ->
            params.domainName # "" /\ params.cidr.Name # ""
      [] op \in {"GetEdgeHostnames", "CreateEdgeHostname"} ->
            params.ContractID # "" /\ params.GroupID # ""
      [] op = "GetEdgeHostname" ->
            params.ContractID # "" /\ params.GroupID # "" /\ params.EdgeHostnameID # ""
      [] OTHER -> TRUE

(* C1: Session.Exec is never invoked with a request built from a zero or   *)
(* empty required identifier: validation always precedes dispatch.         *)
C1_NoDispatchOfInvalidIdentifier ==
    execLog # <<>> => RequiredIdentifiersPresent

(* The Err<Operation> sentinel an operation declares. *)
SentinelOps ==
    {"ListDeactivations", "DeactivateVersion", "GetDeactivation", "GetPolicyProperties",
     "DeletePolicyProperty"}

SentinelOf(o) ==
    CASE o = "ListDeactivations" -> ErrListDeactivations
      [] o = "DeactivateVersion" -> ErrDeactivateVersion
      [] o = "GetDeactivation" -> ErrGetDeactivation
      [] o = "GetPolicyProperties" -> ErrGetPolicyProperties
      [] o = "DeletePolicyProperty" -> ErrDeletePolicyProperty

(* C2: every non-nil error of an operation that declares Err<Operation>    *)
(* satisfies errors.Is(err, Err<Operation>), whatever the failure kind.    *)
C2_ErrorMatchesOperationSentinel ==
    (op \in SentinelOps /\ err # <<>>) => ErrorsIs(err, SentinelOf(op))

(* Validate() of the call's request returned an error. *)
ValidatingOps ==
    {"ListDeactivations", "DeactivateVersion", "GetDeactivation", "DeletePolicyProperty",
     "GetEdgeHostnames", "GetEdgeHostname", "CreateEdgeHostname", "CreateCidrMap",
     "UpdateCidrMap", "DeleteCidrMap"}

ValidationFailed ==
    CASE op = "ListDeactivations" -> ValidateListDeactivations(params) # <<>>
      [] op = "DeactivateVersion" -> ValidateDeactivateVersion(params) # <<>>
      [] op = "GetDeactivation" -> ValidateGetDeactivation(params) # <<>>
      [] op = "DeletePolicyProperty" -> ValidateDeletePolicyProperty(params) # <<>>
      [] op = "GetEdgeHostnames" -> ValidateGetEdgeHostnames(params) # <<>>
      [] op = "GetEdgeHostname" -> ValidateGetEdgeHostname(params) # <<>>
      [] op = "CreateEdgeHostname" -> ValidateCreateEdgeHostname(params) # <<>>
      [] op \in {"CreateCidrMap", "UpdateCidrMap", "DeleteCidrMap"} ->
            ValidateCidrMap(params.cidr) # <<>>
      [] OTHER -> FALSE

(* C3: when Validate() returns an error the operation returns a nil result *)
(* and a non-nil error, and Session.Exec is not called.                    *)
C3_ValidationFailureShortCircuits ==
    (op \in ValidatingOps /\ ValidationFailed)
    => result.isNil /\ err # <<>> /\ execLog = <<>> /\ ~panicked

C3_Witness ==
    /\ op = "UpdateCidrMap" /\ ctx = "live"
    /\ params.cidr.Name = "cidrmap" /\ params.cidr.DefaultDatacenter = "nil"
    /\ params.domainName = "example.akadns.net"
    /\ ValidationFailed
    /\ result.isNil /\ err # <<>> /\ execLog = <<>>

(* The success statuses of the operations. *)
SuccessSet(o) ==
    CASE o \in {"DeactivateVersion", "CreateEdgeHostname"} -> {StatusCreated}
      [] o = "DeletePolicyProperty" -> {StatusNoContent}
      [] o \in {"CreateCidrMap", "UpdateCidrMap"} -> {StatusOK, StatusCreated}
      [] OTHER -> {StatusOK}

Responded == op # "none" /\ reply.kind = "response"

(* The error chain holds a typed Error with the response's status code and, *)
(* for a JSON body, with the body's title and detail.                       *)
CarriesStatusAndMessage ==
    \E i \in 1..Len(err) :
        /\ err[i].kind = "api"
        /\ err[i].e.StatusCode = reply.StatusCode
        /\ reply.Body.kind = "json" =>
                /\ err[i].e.Title = reply.Body.obj.title
                /\ err[i].e.Detail = reply.Body.obj.detail

(* C4: on a status outside the operation's success set the operation       *)
(* returns a nil result and an error carrying the status code and the      *)
(* body's detail and title.                                                *)
C4_NonSuccessYieldsTypedError ==
    (Responded /\ reply.StatusCode \notin SuccessSet(op))
    => result.isNil /\ err # <<>> /\ CarriesStatusAndMessage

(* What Exec decoded from the response. *)
Decoded == IF reply.Body.kind = "json" THEN reply.Body.data ELSE ZeroData

(* C5 as stated: on a status of the success set the operation returns the  *)
(* decoded response and a nil error, CreateEdgeHostname on every 201.      *)
C5_SuccessYieldsDecodedResponse ==
    (Responded /\ reply.StatusCode \in SuccessSet(op))
    => err = <<>> /\ (op # "DeletePolicyProperty" => result.data = Decoded)

BadLink == op = "CreateEdgeHostname" /\ ~Decoded.link.valid

(* C5 amended: on a status of the success set the operation returns the    *)
(* decoded response and a nil error, except CreateEdgeHostname on a 201    *)
(* whose edgeHostnameLink does not parse: it returns a nil result and an   *)
(* error wrapping ErrInvalidLocation.                                      *)
C5_SuccessYieldsDecodedResponseUnlessBadLink ==
    (Responded /\ reply.StatusCode \in SuccessSet(op))
    => IF BadLink
       THEN result.isNil /\ ErrorsIs(err, ErrInvalidLocation)
       ELSE err = <<>> /\ (op # "DeletePolicyProperty" => result.data = Decoded)

C5_Witness ==
    /\ Responded /\ op = "CreateEdgeHostname" /\ reply.StatusCode = StatusCreated
    /\ Decoded.link.valid /\ Decoded.link.path # <<>>
    /\ err = <<>> /\ ~result.isNil /\ result.id = "ehn_1" /\ result.data = Decoded

----------------------------------------------------------------------------
(* url.Parse and http.NewRequestWithContext accept the call's URL and      *)
(* context.                                                                *)
RequestConstructed ==
    /\ ctx # "nil"
    /\ CASE op \in {"ListCidrMaps", "GetCidrMap", "CreateCidrMap", "UpdateCidrMap",
                    "DeleteCidrMap"} -> ~HasControlChar(params.domainName)
         [] op \in {"GetEdgeHostnames", "GetEdgeHostname", "CreateEdgeHostname"} ->
                ~HasControlChar(params.ContractID)
         [] OTHER -> TRUE

(* C11 as stated: every invocation hands exactly one request to            *)
(* Session.Exec, on every path through the operation.                      *)
C11_ExactlyOneExec ==
    op # "none" => Len(execLog) = 1

(* C11 amended: every invocation hands at most one request to Session.Exec: *)
(* exactly one when Validate() passes and the request is built (in          *)
(* GetDeactivation also when NewRequestWithContext fails: the nil request   *)
(* is handed over), none when validation or request construction fails.    *)
C11_OneExecUnlessRejectedBefore ==
    op # "none" =>
        /\ Len(execLog) <= 1
        /\ Len(execLog) = 1 <=>
                (~ValidationFailed /\ (RequestConstructed \/ op = "GetDeactivation"))

C11_Witness ==
    /\ op = "GetCidrMap" /\ ctx = "live" /\ params.domainName = "example.akadns.net"
    /\ reply.kind = "error"
    /\ Len(execLog) = 1 /\ ~execLog[1].isNil /\ err # <<>>

(* Session.Exec returned an error, or a response whose status is outside   *)
(* the operation's success set.                                            *)
ExecFailed ==
    /\ op # "none"
    /\ \/ reply.kind = "error"
       \/ reply.kind = "response" /\ reply.StatusCode \notin SuccessSet(op)

(* C12: within one invocation Session.Exec is called at most once, and     *)
(* when it returns an error or a non-success status the operation returns  *)
(* a non-nil error without another Exec call.                              *)
C12_NoRetryFailureSurfaced ==
    /\ Len(execLog) <= 1
    /\ ExecFailed => (err # <<>> /\ Len(execLog) = 1 /\ ~panicked)

C12_Witness ==
    /\ op = "DeleteCidrMap" /\ reply.kind = "response"
    /\ reply.StatusCode = StatusInternalServerError
    /\ Len(execLog) = 1 /\ err # <<>> /\ result.isNil

----------------------------------------------------------------------------
(* The fields of a request that violate their rules, read off the request  *)
(* itself.                                                                 *)
AllowedSuffix(network) ==
    CASE network = EHSecureNetworkStandardTLS -> {"edgesuite.net"}
      [] network = EHSecureNetworkSharedCert -> {"akamaized.net"}
      [] network = EHSecureNetworkEnhancedTLS -> {"edgekey.net"}
      [] OTHER -> {"edgesuite.net", "akamaized.net", "edgekey.net"}

ViolatedEdgeHostnameFields(eh) ==
    {f \in {"DomainPrefix"} : eh.DomainPrefix = ""}
    \cup {f \in {"DomainSuffix"} : eh.DomainSuffix \notin AllowedSuffix(eh.SecureNetwork)}
    \cup {f \in {"IPVersionBehavior"} :
                eh.IPVersionBehavior \notin {EHIPVersionV4, EHIPVersionV6Compliance}}
    \cup {f \in {"ProductID"} : eh.ProductID = ""}
    \cup {f \in {"CertEnrollmentID"} :
                eh.SecureNetwork = EHSecureNetworkEnhancedTLS /\ eh.CertEnrollmentID = 0}
    \cup {f \in {"UseCases"} :
                \E i \in 1..Len(eh.UseCases) :
                    \/ eh.UseCases[i].Option = ""
                    \/ eh.UseCases[i].Type # UseCaseGlobal
                    \/ eh.UseCases[i].UseCase = ""}

ViolatedFields(o, p) ==
    CASE o = "ListDeactivations" -> {f \in {"EdgeWorkerID"} : p.EdgeWorkerID = 0}
      [] o = "DeactivateVersion" ->
            {f \in {"EdgeWorkerID"} : p.EdgeWorkerID = 0}
            \cup {f \in {"Body.Network"} :
                        p.Body.Network \notin {ActivationNetworkStaging,
                                               ActivationNetworkProduction}}
            \cup {f \in {"Body.Version"} : p.Body.Version = ""}
      [] o = "GetDeactivation" ->
            {f \in {"EdgeWorkerID"} : p.EdgeWorkerID = 0}
            \cup {f \in {"DeactivationID"} : p.DeactivationID = 0}
      [] o = "DeletePolicyProperty" ->
            {f \in {"PolicyID"} : p.PolicyID = 0}
            \cup {f \in {"PropertyID"} : p.PropertyID = 0}
      [] o = "GetEdgeHostnames" ->
            {f \in {"ContractID"} : p.ContractID = ""}
            \cup {f \in {"GroupID"} : p.GroupID = ""}
      [] o = "GetEdgeHostname" ->
            {f \in {"ContractID"} : p.ContractID = ""}
            \cup {f \in {"GroupID"} : p.GroupID = ""}
            \cup {f \in {"EdgeHostnameID"} : p.EdgeHostnameID = ""}
      [] o = "CreateEdgeHostname" ->
            {f \in {"ContractID"} : p.ContractID = ""}
            \cup {f \in {"GroupID"} : p.GroupID = ""}
            \cup ViolatedEdgeHostnameFields(p.EdgeHostname)
            \cup {f \in {"EdgeHostname"} : ViolatedEdgeHostnameFields(p.EdgeHostname) # {}}
      [] o \in {"CreateCidrMap", "UpdateCidrMap", "DeleteCidrMap"} ->
            {f \in {"Name"} : p.cidr.Name = ""}
            \cup {f \in {"DefaultDatacenter"} : p.cidr.DefaultDatacenter = "nil"}
      [] OTHER -> {}

(* The rendered error names the field. *)
NamesField(er, f) == \E i \in 1..Len(Text(er)) : Text(er)[i] = f

(* C13: when several fields of a request violate their rules at once, the  *)
(* validation error names every one of them, not only the first.           *)
C13_ValidationNamesEveryViolatedField ==
    op \in ValidatingOps =>
        \A f \in ViolatedFields(op, params) : NamesField(err, f)

(* The required fields of a request that are missing (empty string, zero   *)
(* integer or nil).                                                        *)
MissingRequired(o, p) ==
    CASE o = "DeactivateVersion" ->
            {f \in {"EdgeWorkerID"} : p.EdgeWorkerID = 0}
            \cup {f \in {"Body.Network"} : p.Body.Network = ""}
            \cup {f \in {"Body.Version"} : p.Body.Version = ""}
      [] o = "CreateEdgeHostname" ->
            {f \in {"ContractID"} : p.ContractID = ""}
            \cup {f \in {"GroupID"} : p.GroupID = ""}
            \cup {f \in {"DomainPrefix"} : p.EdgeHostname.DomainPrefix = ""}
            \cup {f \in {"DomainSuffix"} : p.EdgeHostname.DomainSuffix = ""}
            \cup {f \in {"IPVersionBehavior"} : p.EdgeHostname.IPVersionBehavior = ""}
            \cup {f \in {"ProductID"} : p.EdgeHostname.ProductID = ""}
      [] OTHER -> ViolatedFields(o, p)

(* C14: Validate() returns an error naming each required field that is     *)
(* missing, and returns nil when every required field is present and every *)
(* enumerated field holds an allowed value.                                *)
C14_RequiredFieldsEnforced ==
    op \in ValidatingOps =>
        /\ \A f \in MissingRequired(op, params) : ValidationFailed /\ NamesField(err, f)
        /\ ViolatedFields(op, params) = {} => ~ValidationFailed

(* The name under which an operation reports its failures: the text of its *)
(* Err<Operation> sentinel where it declares one, its own name otherwise.  *)
OperationLabel(o) == IF o \in SentinelOps THEN Text(SentinelOf(o))[1] ELSE o

(* C15: the error of a validation failure is rendered as                   *)
(* "<operation>: struct validation: <details>".                            *)
C15_ValidationErrorForm ==
    (op \in ValidatingOps /\ ValidationFailed) =>
        /\ Len(Text(err)) > 4
        /\ SubSeq(Text(err), 1, 4)
                = <<OperationLabel(op), ": ", Text(ErrStructValidation)[1], ": ">>

(* C16: when url.Parse or http.NewRequestWithContext fails, the operation   *)
(* returns a nil result and a non-nil error and hands nothing to            *)
(* Session.Exec; GetDeactivation as every other operation.                 *)
C16_ConstructionFailureReturnsError ==
    (op # "none" /\ ~ValidationFailed /\ ~RequestConstructed)
    => result.isNil /\ err # <<>> /\ execLog = <<>> /\ ~panicked

(* The caller's context is canceled or past its deadline. *)
ContextDone == ctx \in {"canceled", "expired"}

(* C17: with a canceled or expired context the operation ends with a nil   *)
(* result and a non-nil error that carries the cause of the failed Exec;   *)
(* it makes no second attempt and never reports success.                   *)
C17_ContextDoneReturnsError ==
    (op # "none" /\ ContextDone) =>
        /\ result.isNil /\ err # <<>> /\ ~panicked /\ Len(execLog) <= 1
        /\ reply.kind = "error" => NamesField(err, reply.cause)

C17_Witness ==
    /\ op = "GetPolicyProperties" /\ ctx = "expired" /\ params.policyID = 1
    /\ reply.kind = "error" /\ reply.cause = "context deadline exceeded"
    /\ Len(execLog) = 1 /\ result.isNil /\ ErrorsIs(err, ErrGetPolicyProperties)

----------------------------------------------------------------------------
(* Client construction and calls on the constructed client.                *)

(* An Option is a function on the new client: it leaves the client alone, *)
(* overwrites its Session or sets usePrefixes.                            *)
GivenSessions == {DefaultSession, "other"}
Options ==
    {[kind |-> "noop", val |-> ""], [kind |-> "usePrefixes", val |-> ""]}
    \cup {[kind |-> "session", val |-> v] : v \in {NilSession, "other"}}

OptionArgs == UNION {[1..n -> Options] : n \in 0..MaxOpts}

(* opt(p) *)
ApplyOptionKeepingSession(opt, cl) ==
    IF opt.kind = "usePrefixes" THEN [cl EXCEPT !.usePrefixes = TRUE] ELSE cl

ApplyOption(opt, cl) ==
    CASE opt.kind = "session" -> [cl EXCEPT !.Session = opt.val]
      [] opt.kind = "usePrefixes" -> [cl EXCEPT !.usePrefixes = TRUE]
      [] OTHER -> cl

(* The operations that callers run on the shared client. *)
ConcurrentOps == {"GetEdgeHostnames", "GetEdgeHostname"}

ConcurrentParams(o) ==
    IF o = "GetEdgeHostnames"
    THEN [ContractID : {"", "ctr_1"}, GroupID : {"grp_1"}, Options : {<<>>}]
    ELSE [EdgeHostnameID : {"ehn_1"}, ContractID : {"ctr_1"}, GroupID : {"grp_1"},
          Options : {<<>>}]

ConcurrentReplies ==
    {[kind |-> "error", cause |-> "connection refused", StatusCode |-> 0,
      Body |-> IdleResponse.Body],
     [kind |-> "response", cause |-> "", StatusCode |-> StatusOK,
      Body |-> [kind |-> "json", raw |-> "{}", obj |-> ZeroObject, data |-> ZeroData]],
     [kind |-> "response", cause |-> "", StatusCode |-> StatusNotFound,
      Body |-> [kind |-> "text", raw |-> "", obj |-> ZeroObject, data |-> ZeroData]],
     [kind |-> "response", cause |-> "", StatusCode |-> StatusInternalServerError,
      Body |-> [kind |-> "json", raw |-> "{}", obj |-> ProblemDetails, data |-> ZeroData]]}

(* An operation as a method of the client: after validation it reaches the *)
(* session through the embedded Session field (p.Log, p.Exec), a nil       *)
(* dereference when the field is nil, and copies usePrefixes into the      *)
(* PAPI-Use-Prefixes header of its request.                                *)
Dispatch(cl, o, p, c, rep) ==
    LET v == IF o = "GetEdgeHostnames" THEN ValidateGetEdgeHostnames(p)
             ELSE ValidateGetEdgeHostname(p)
        out == IF o = "GetEdgeHostnames" THEN GetEdgeHostnames(p, c, rep)
               ELSE GetEdgeHostname(p, c, rep)
    IN
    IF v # <<>> THEN out
    ELSE IF cl.Session = NilSession THEN Panic(<<>>)
    ELSE [out EXCEPT !.execs = [i \in DOMAIN out.execs |->
                                    [PAPIUsePrefixes |-> cl.usePrefixes] @@ out.execs[i]]]

(* What an operation leaves in the client: it assigns no field of its      *)
(* receiver.                                                               *)
ClientAfterDroppingSession(o, cl) == [cl EXCEPT !.Session = NilSession]

ClientAfter(o, cl) == cl

InitClient ==
    /\ pc = "init"
    /\ sess \in GivenSessions
    /\ opts \in OptionArgs
    /\ client = [Session |-> NilSession, usePrefixes |-> FALSE]
    /\ applied = <<>>
    /\ calls = [g \in Callers |-> IdleCall]
    /\ vreq = [none |-> TRUE] /\ verr = <<>>
    /\ IdleOps
    /\ e = ZeroError /\ target = <<>> /\ isResult = FALSE
    /\ r = IdleResponse /\ mapped = <<>>

(* p := &networklists{Session: sess} *)
ClientNew ==
    /\ pc = "init"
    /\ pc' = "opts"
    /\ client' = [Session |-> sess, usePrefixes |-> FALSE]
    /\ UNCHANGED <<sess, opts, applied, calls, opVars, e, target, isResult, r, mapped, validateVars>>

(* for _, opt := range opts { opt(p) } : one iteration *)
ClientApplyOption ==
    /\ pc = "opts"
    /\ Len(applied) < Len(opts)
    /\ client' = ApplyOption(opts[Len(applied) + 1], client)
    /\ applied' = Append(applied, opts[Len(applied) + 1])
    /\ UNCHANGED <<pc, sess, opts, calls, opVars, e, target, isResult, r, mapped, validateVars>>

(* return p *)
ClientReturn ==
    /\ pc = "opts"
    /\ Len(applied) = Len(opts)
    /\ pc' = "done"
    /\ UNCHANGED <<sess, opts, client, applied, calls, opVars, e, target, isResult, r, mapped, validateVars>>

(* A caller invokes an operation: it runs up to its Session.Exec call, or  *)
(* to its return when it ends before.                                      *)
StartCall(g) ==
    /\ pc = "done"
    /\ calls[g].pc = "idle"
    /\ \E o \in ConcurrentOps : \E p \in ConcurrentParams(o) :
        LET pre == Dispatch(client, o, p, "live", NoReply) IN
        /\ calls' = [calls EXCEPT ![g] =
                        IF pre.execs = <<>>
                        THEN [pc |-> "returned", op |-> o, params |-> p, reply |-> NoReply,
                              out |-> pre]
                        ELSE [pc |-> "exec", op |-> o, params |-> p, reply |-> NoReply,
                              out |-> IdleCall.out]]
        /\ client' = ClientAfter(o, client)
    /\ UNCHANGED <<pc, sess, opts, applied, opVars, e, target, isResult, r, mapped, validateVars>>

(* The session answers the caller's request and the operation returns. *)
FinishCall(g) ==
    /\ pc = "done"
    /\ calls[g].pc = "exec"
    /\ \E rep \in ConcurrentReplies :
        calls' = [calls EXCEPT ![g] =
                    [pc |-> "returned", op |-> calls[g].op, params |-> calls[g].params,
                     reply |-> rep,
                     out |-> Dispatch(client, calls[g].op, calls[g].params, "live", rep)]]
    /\ client' = ClientAfter(calls[g].op, client)
    /\ UNCHANGED <<pc, sess, opts, applied, opVars, e, target, isResult, r, mapped, validateVars>>

NextClient ==
    \/ ClientNew
    \/ ClientApplyOption
    \/ ClientReturn
    \/ \E g \in Callers : StartCall(g)
    \/ \E g \in Callers : FinishCall(g)

SpecClient == InitClient /\ [][NextClient]_vars

(* The fields Client's arguments call for: the session of the last option  *)
(* that overwrites it, else the given one; usePrefixes when an option sets *)
(* it.                                                                     *)
SessionOptions == {i \in 1..Len(opts) : opts[i].kind = "session"}

ExpectedClient ==
    [Session |-> IF SessionOptions = {} THEN sess
                 ELSE opts[CHOOSE i \in SessionOptions : \A j \in SessionOptions : j <= i].val,
     usePrefixes |-> \E i \in 1..Len(opts) : opts[i].kind = "usePrefixes"]

(* C18: Client attaches sess, then applies every option exactly once in    *)
(* argument order: without effective options the client holds the given    *)
(* session and zero-valued other fields, and the last option overwriting   *)
(* the session determines the session of the returned client.              *)
C18_ClientAppliesOptionsInOrder ==
    /\ pc = "opts" => Len(applied) <= Len(opts) /\ applied = SubSeq(opts, 1, Len(applied))
    /\ pc = "done" => applied = opts /\ client = ExpectedClient

C18_Witness ==
    /\ pc = "done" /\ Len(opts) = 2
    /\ opts[1] = [kind |-> "session", val |-> "other"]
    /\ opts[2] = [kind |-> "session", val |-> NilSession]
    /\ sess = DefaultSession /\ client.Session = NilSession /\ ~client.usePrefixes

----------------------------------------------------------------------------
(* A gtm list or get operation answered with 500 and a problem-details     *)
(* body.                                                                   *)
GtmReadOps == {"ListCidrMaps", "GetCidrMap"}

AnsweredProblemDetails ==
    /\ op \in GtmReadOps /\ Responded
    /\ reply.StatusCode = StatusInternalServerError
    /\ reply.Body.kind = "json" /\ reply.Body.obj.title # ""

(* &Error{Type, Title, Detail, StatusCode: 500} of a body, and the same    *)
(* with the body's instance member as well.                                *)
TargetOf(obj) ==
    <<ApiLink([ZeroError EXCEPT !.Type = obj.type, !.Title = obj.title, !.Detail = obj.detail,
                                !.StatusCode = StatusInternalServerError, !.addr = 2])>>

FullTargetOf(obj) ==
    <<ApiLink([ZeroError EXCEPT !.Type = obj.type, !.Title = obj.title, !.Detail = obj.detail,
                                !.Instance = obj.instance,
                                !.StatusCode = StatusInternalServerError, !.addr = 2])>>

OtherObjects ==
    [type : {"", ProblemDetails.type}, title : {ProblemDetails.title, "Bad Request"},
     detail : {"", ProblemDetails.detail}, instance : Opt, status : {StatusInternalServerError}]

(* C20 as stated: the returned error matches the Error built from the      *)
(* body's type, title and detail, and no Error differing in one of them.   *)
C20_MatchesTypeTitleDetail ==
    AnsweredProblemDetails =>
        /\ ErrorsIs(err, TargetOf(reply.Body.obj))
        /\ \A o \in OtherObjects :
                (o.type # reply.Body.obj.type \/ o.title # reply.Body.obj.title
                    \/ o.detail # reply.Body.obj.detail)
                => ~ErrorsIs(err, TargetOf(o))

(* C20 amended: the returned error matches the Error built from the body's *)
(* type, title, detail and instance, and no Error differing in one of      *)
(* them.                                                                   *)
C20_MatchesEveryDecodedMember ==
    AnsweredProblemDetails =>
        /\ result.isNil
        /\ ErrorsIs(err, FullTargetOf(reply.Body.obj))
        /\ \A o \in OtherObjects :
                (o.type # reply.Body.obj.type \/ o.title # reply.Body.obj.title
                    \/ o.detail # reply.Body.obj.detail
                    \/ o.instance # reply.Body.obj.instance)
                => ~ErrorsIs(err, FullTargetOf(o))

C20_Witness ==
    /\ AnsweredProblemDetails /\ op = "ListCidrMaps"
    /\ reply.Body.obj = ProblemDetailsWithInstance
    /\ IsTyped(err) /\ err[1].e.Instance = "x"
    /\ ErrorsIs(err, FullTargetOf(reply.Body.obj))
    /\ ~ErrorsIs(err, TargetOf(reply.Body.obj))

----------------------------------------------------------------------------
(* The operation took the status for a success: it returned no error, or   *)
(* went on to read the location of the created resource.                   *)
StatusAccepted == err = <<>> \/ ErrorsIs(err, ErrInvalidLocation)

(* C21: each operation accepts exactly the statuses of its own success set *)
(* (200; 201 for DeactivateVersion and CreateEdgeHostname; 204 for         *)
(* DeletePolicyProperty; 200 and 201 for CreateCidrMap and UpdateCidrMap)  *)
(* and treats every other status, other 2xx included, as a failure.        *)
C21_ExactSuccessSets ==
    Responded =>
        /\ StatusAccepted <=> reply.StatusCode \in SuccessSet(op)
        /\ reply.StatusCode \notin SuccessSet(op) => result.isNil /\ err # <<>>

C21_Witness ==
    /\ Responded /\ op = "DeactivateVersion" /\ reply.StatusCode = StatusOK
    /\ reply.Body.kind = "json" /\ result.isNil /\ err # <<>> /\ ~StatusAccepted

----------------------------------------------------------------------------
(* EdgeHostnameCreate.Validate on its own.                                 *)
ValidateInputs ==
    [ProductID : {"prd_1"}, DomainPrefix : {"www"},
     DomainSuffix : {"", "edgesuite.net", "akamaized.net", "edgekey.net", "example.com"},
     Secure : {FALSE},
     SecureNetwork : {"", EHSecureNetworkStandardTLS, EHSecureNetworkSharedCert,
                      EHSecureNetworkEnhancedTLS, "BOGUS"},
     SlotNumber : {0}, IPVersionBehavior : {"", "IPV4", "IPV6_COMPLIANCE", "IPV6"},
     CertEnrollmentID : IDs, UseCases : {<<>>}]

InitValidate ==
    /\ pc = "init"
    /\ vreq \in ValidateInputs
    /\ verr = <<>>
    /\ IdleOps
    /\ e = ZeroError /\ target = <<>> /\ isResult = FALSE
    /\ r = IdleResponse /\ mapped = <<>>
    /\ sess = DefaultSession /\ opts = <<>> /\ applied = <<>>
    /\ client = [Session |-> DefaultSession, usePrefixes |-> FALSE]
    /\ calls = [g \in Callers |-> IdleCall]

CallValidate ==
    /\ pc = "init"
    /\ pc' = "done"
    /\ verr' = ValidateEdgeHostnameCreate(vreq)
    /\ UNCHANGED <<vreq, e, target, isResult, r, mapped, opVars, clientVars>>

NextValidate == CallValidate

SpecValidate == InitValidate /\ [][NextValidate]_vars

(* Validate reported the field. *)
FieldFailed(f) == \E i \in 1..Len(verr) : verr[i].field = f

(* C22: CertEnrollmentID is required exactly when SecureNetwork is         *)
(* ENHANCED_TLS; a non-empty DomainSuffix must be edgesuite.net under      *)
(* STANDARD_TLS, akamaized.net under SHARED_CERT, edgekey.net under        *)
(* ENHANCED_TLS, and is free when SecureNetwork is empty.                  *)
C22_ConditionalRules ==
    pc = "done" =>
        /\ FieldFailed("CertEnrollmentID")
                <=> (vreq.SecureNetwork = EHSecureNetworkEnhancedTLS /\ vreq.CertEnrollmentID = 0)
        /\ vreq.DomainSuffix # "" =>
                (FieldFailed("DomainSuffix") <=>
                    \/ vreq.SecureNetwork = EHSecureNetworkStandardTLS
                            /\ vreq.DomainSuffix # "edgesuite.net"
                    \/ vreq.SecureNetwork = EHSecureNetworkSharedCert
                            /\ vreq.DomainSuffix # "akamaized.net"
                    \/ vreq.SecureNetwork = EHSecureNetworkEnhancedTLS
                            /\ vreq.DomainSuffix # "edgekey.net")

C22_Witness ==
    /\ pc = "done"
    /\ vreq.SecureNetwork = EHSecureNetworkSharedCert /\ vreq.DomainSuffix = "edgekey.net"
    /\ vreq.CertEnrollmentID = 0 /\ vreq.IPVersionBehavior = "IPV4"
    /\ FieldFailed("DomainSuffix") /\ ~FieldFailed("CertEnrollmentID")

(* C28: EHIPVersionV4 and EHIPVersionV6Compliance denote two different     *)
(* values; IPVersionBehavior passes with either of them and is rejected    *)
(* with any third value.                                                   *)
C28_TwoDistinctIPVersions ==
    pc = "done" =>
        /\ Cardinality({EHIPVersionV4, EHIPVersionV6Compliance}) = 2
        /\ FieldFailed("IPVersionBehavior")
                <=> vreq.IPVersionBehavior \notin {EHIPVersionV4, EHIPVersionV6Compliance}

----------------------------------------------------------------------------
(* C23: CreateCidrMap and UpdateCidrMap are one wire operation: a call of  *)
(* UpdateCidrMap validates, sends (a PUT to the map's URL with the map as  *)
(* body) and fails exactly as CreateCidrMap does on the same input and     *)
(* answer, and on success returns the Status member of the response that   *)
(* CreateCidrMap returns.                                                  *)
C23_UpdateIsCreateWithStatus ==
    op = "UpdateCidrMap" =>
        LET created == CreateCidrMap(params, ctx, reply) IN
        /\ err = created.err /\ execLog = created.execs /\ panicked = created.panicked
        /\ execLog # <<>> =>
                /\ execLog[1].Method = "PUT" /\ execLog[1].hasBody
                /\ execLog[1].URL = <<"/config-gtm/v1/domains/", params.domainName,
                                      "/cidr-maps/", params.cidr.Name>>
        /\ err # <<>> => result.isNil /\ created.result.isNil
        /\ err = <<>> =>
                /\ ~created.result.isNil
                /\ result.data.status = created.result.data.status
                /\ result.isNil = ~created.result.data.status

C23_Witness ==
    /\ op = "UpdateCidrMap" /\ Responded /\ reply.StatusCode = StatusCreated
    /\ reply.Body.kind = "json" /\ reply.Body.data.status
    /\ err = <<>> /\ ~result.isNil /\ execLog[1].Method = "PUT"
    /\ CreateCidrMap(params, ctx, reply).err = <<>>

----------------------------------------------------------------------------
(* C24: on a 404 GetEdgeHostnames and GetEdgeHostname return a nil result  *)
(* and an error matching session.ErrNotFound, not the typed API error;     *)
(* CreateEdgeHostname maps a 404 through the generic API-error path.       *)
C24_NotFoundBranch ==
    (Responded /\ reply.StatusCode = StatusNotFound) =>
        /\ op \in {"GetEdgeHostnames", "GetEdgeHostname"} =>
                /\ result.isNil /\ ErrorsIs(err, SessionErrNotFound)
                /\ \A i \in 1..Len(err) : err[i].kind # "api"
        /\ op = "CreateEdgeHostname" =>
                /\ result.isNil /\ IsTyped(err) /\ err[1].e.StatusCode = StatusNotFound
                /\ ~SameValue(err, SessionErrNotFound)

C24_Witness ==
    /\ Responded /\ reply.StatusCode = StatusNotFound /\ op = "GetEdgeHostname"
    /\ params.EdgeHostnameID = "ehn_1" /\ reply.Body.kind = "json"
    /\ result.isNil /\ ErrorsIs(err, SessionErrNotFound) /\ Len(err) = 2

----------------------------------------------------------------------------
(* The operations that return a (result, error) pair. *)
PairOps ==
    {"ListDeactivations", "DeactivateVersion", "GetDeactivation", "GetPolicyProperties",
     "ListCidrMaps", "GetCidrMap", "CreateCidrMap", "UpdateCidrMap", "DeleteCidrMap",
     "GetEdgeHostnames", "GetEdgeHostname", "CreateEdgeHostname"}

(* C25: an operation returning (result, error) returns exactly one of them *)
(* nil: a nil error always comes with a non-nil result, also when the      *)
(* success response is empty or omits the member the operation returns.    *)
C25_ExactlyOneNil ==
    (op \in PairOps /\ ~panicked) => (result.isNil <=> err # <<>>)

----------------------------------------------------------------------------
(* The underlying error E of a failed Session.Exec (context.Canceled, a    *)
(* connection error).                                                      *)
CauseOf(rep) == <<Sentinel(rep.cause, rep.cause)>>

(* C26: when Session.Exec fails with an underlying error E, the returned   *)
(* error keeps E in its chain: errors.Is(returned, E) holds in every       *)
(* operation.                                                              *)
C26_ExecErrorKeptInChain ==
    (op # "none" /\ reply.kind = "error") => ErrorsIs(err, CauseOf(reply))

----------------------------------------------------------------------------
(* The relation e.Is(t) on typed errors, checked on the comparison that    *)
(* SpecErrorIs performs and on the comparisons it implies.                 *)
Typed(x) == <<ApiLink(x)>>

(* A third error value: one of the two compared, or a value at an address  *)
(* of its own.                                                             *)
Thirds == {e, target[1].e} \cup ErrorValues({NumAddrs + 1})

NoTypedErrorInChain == \A i \in 1..Len(target) : target[i].kind # "api"

C27_Equivalence ==
    (pc = "done" /\ TypedTarget) =>
        LET t == target[1].e IN
        /\ t = e => isResult
        /\ Is(t, Typed(t))
        /\ isResult = Is(t, Typed(e))
        /\ isResult => \A u \in Thirds : Is(t, Typed(u)) => Is(e, Typed(u))

(* C27 as stated: Is is reflexive, symmetric and transitive on typed       *)
(* errors, and is false for every target that neither matches ErrNotFound  *)
(* nor is itself a typed Error.                                            *)
C27_FalseUnlessNotFoundOrTyped ==
    /\ C27_Equivalence
    /\ (pc = "done" /\ ~TypedTarget /\ ~ErrorsIs(target, ErrNotFound)) => ~isResult

(* C27, amended: Is is reflexive, symmetric and transitive on typed        *)
(* errors, and is false for every target that neither matches ErrNotFound  *)
(* nor holds a typed Error anywhere in its chain.                          *)
C27_FalseUnlessNotFoundOrTypedInChain ==
    /\ C27_Equivalence
    /\ (pc = "done" /\ NoTypedErrorInChain /\ ~ErrorsIs(target, ErrNotFound)) => ~isResult

C27_Witness ==
    /\ pc = "done" /\ TypedTarget /\ isResult
    /\ target[1].e.addr # e.addr
    /\ e.StatusCode # StatusNotFound

====
